---- MODULE Spec2Model ----
(***************************************************************************)
(* Model of the discrete-problem assembly engine of Hermes2D               *)
(* (hermes2d/src/discrete_problem.cpp): sparse-structure caching, the      *)
(* OpenMP-parallel assembly pass, local block evaluation and the DG        *)
(* "visited" protocol.                                                     *)
(*                                                                         *)
(* Numbers.  Reals are modelled by integers:                               *)
(*   - a form's scaling_factor is counted in units of 1e-13, so the        *)
(*     threshold 1e-12 of the code is the integer 10 (Eps12);              *)
(*   - assembly-list coefficients and block weights are integers, so       *)
(*     "fabs(x) < 1e-12" is "x = 0" for them;                              *)
(*   - a form's value() is an even integer, so that the factor 0.5 of the  *)
(*     surface paths is an exact division by two.                          *)
(***************************************************************************)
EXTENDS Integers, Sequences, FiniteSets, TLC

(***************************************************************************)
(* Bounds of the model.                                                    *)
(***************************************************************************)
\* number of elements of each mesh (a strip of quads)
NumElems == 2
\* omp_get_max_threads()
NumThreads == 2
\* number of assemble calls in one behaviour
MaxPasses == 3

\* the number of assemble calls run by NumThreads threads
MaxParPasses == 2
\* levels of refinement across one edge that the meshes differ by
MaxLevels == 2

\* the chains inserted into one tree
MaxInserts == 3

\* the states of the traversal of Linearizer::process_solution (num_states)
LinNumStates == 4

\* the deepest level of Linearizer::process_triangle that is followed
MaxTriLevel == 3
\* bits of an unsigned int of the model (32 in the build; the loop counters
\* stay far below either)
UIntBits == 16
\* number of space / weak-form changes in one behaviour
MaxSeq == 1

(***************************************************************************)
(* The problem: two spaces (one equation each), each on its own mesh; both *)
(* meshes are the same strip of NumElems quads.                            *)
(***************************************************************************)
Spaces == {0, 1}
neq == Cardinality(Spaces)
Elements == 1 .. NumElems
\* the null element pointer
NoElem == 0
Threads == 1 .. NumThreads

\* fabs(x)
fabs(x) == IF x < 0 THEN -x ELSE x
\* 1e-12 in units of 1e-13 (the unit of scaling_factor)
Eps12 == 10

Max2(a, b) == IF a > b THEN a ELSE b

\* Element::get_num_surf() of a quad
get_num_surf(e) == 4
Surfs(e) == 0 .. (get_num_surf(e) - 1)

\* e->en[isurf]->marker: 0 on an interior edge, the internal boundary
\* marker otherwise (bottom and top: 3, left end: 1, right end: 2)
EdgeMarker(e, isurf) ==
  CASE isurf = 0 -> 3
    [] isurf = 1 -> IF e < NumElems THEN 0 ELSE 2
    [] isurf = 2 -> 3
    [] OTHER     -> IF e > 1 THEN 0 ELSE 1

\* the element across edge isurf (conforming meshes: one neighbor)
NeighborOf(e, isurf) ==
  CASE isurf = 1 /\ e < NumElems -> e + 1
    [] isurf = 3 /\ e > 1        -> e - 1
    [] OTHER                     -> NoElem

\* e->marker, the internal element (material) marker
ElemMarker(e) == IF e % 2 = 1 THEN 1 ELSE 2

\* Mesh::get_element_markers_conversion().get_internal_marker(area)
ElementMarkersConversion(area) ==
  CASE area = "mat1" -> [valid |-> TRUE, marker |-> 1]
    [] area = "mat2" -> [valid |-> TRUE, marker |-> 2]
    [] area = "mat3" -> [valid |-> TRUE, marker |-> 3]
    [] OTHER         -> [valid |-> FALSE, marker |-> -1]

\* Mesh::get_boundary_markers_conversion().get_internal_marker(area)
BoundaryMarkersConversion(area) ==
  CASE area = "left"  -> [valid |-> TRUE, marker |-> 1]
    [] area = "right" -> [valid |-> TRUE, marker |-> 2]
    [] area = "wall"  -> [valid |-> TRUE, marker |-> 3]
    [] OTHER          -> [valid |-> FALSE, marker |-> -1]

(***************************************************************************)
(* Traverse: the union-mesh states.  Both meshes are equal, so state s     *)
(* carries element s of every mesh; rep is that element and bnd[isurf]     *)
(* tells whether edge isurf lies on the boundary.  A field that has no     *)
(* element in a state (<< state, field >> in absent) has a null e[i].      *)
(***************************************************************************)
VARIABLE
  absent                \* the << state, field >> pairs with current_state->e[i] == NULL

States == 1 .. NumElems
\* Traverse::get_num_states(meshes)
get_num_states == NumElems
\* current_state->e[i]
StateE(s, i) == IF << s, i >> \in absent THEN NoElem ELSE s
\* current_state->rep
StateRep(s) == s
\* current_state->bnd[isurf]
StateBnd(s, isurf) == EdgeMarker(StateRep(s), isurf) # 0
\* Traverse::get_next_state(&top, &id): the state delivered and the cursor after
get_next_state(id) == [state |-> id + 1, id |-> id + 1]

(***************************************************************************)
(* Spaces.  Space 0 has two vertex-like shape functions per element (the   *)
(* left one of element 1 is an essential-BC dof, -1) and one constrained   *)
(* shape function whose coefficient is negligible; space 1 is piecewise    *)
(* constant.  A change of a space (a new sequence number) renumbers its    *)
(* dofs; the number of dofs stays NumElems.                                *)
(***************************************************************************)
\* Space::get_num_dofs()
SpaceNumDofs(i) == NumElems
\* DiscreteProblem::ndof
ndof == neq * NumElems
Dofs == 0 .. (ndof - 1)

\* the number a space gives its k-th unknown (k in 1..NumElems) at sequence number seq
LocalNumber(k, seq) == IF seq % 2 = 0 THEN k - 1 ELSE NumElems - k

\* Space::get_element_assembly_list(e, al, first_dof): (idx, dof, coef) triplets;
\* base is Space::first_dof, the number assign_dofs started from
get_element_assembly_list(i, e, seq, base, first_dof) ==
  IF i = 0
  THEN << [idx |-> 0,
           dof |-> IF e = 1 THEN -1 ELSE LocalNumber(e - 1, seq) + base + first_dof,
           coef |-> 1],
          [idx |-> 1, dof |-> LocalNumber(e, seq) + base + first_dof, coef |-> 1],
          [idx |-> 2, dof |-> LocalNumber(e, seq) + base + first_dof, coef |-> 0] >>
  ELSE << [idx |-> 0, dof |-> LocalNumber(e, seq) + base + first_dof, coef |-> 2] >>

\* Space::get_boundary_assembly_list(e, isurf, al, first_dof): the shape
\* functions that are nonzero on edge isurf
get_boundary_assembly_list(i, e, isurf, seq, base, first_dof) ==
  LET al == get_element_assembly_list(i, e, seq, base, first_dof)
  IN  IF i = 0
      THEN CASE isurf = 3 -> << al[1] >>
             [] isurf = 1 -> << al[2] >>
             [] OTHER     -> << al[1], al[2] >>
      ELSE al

(***************************************************************************)
(* The weak form.  wfv selects which DG forms are registered:              *)
(*   "plain": none, "dgm": DG matrix forms, "dgmv": DG matrix and vector   *)
(*   forms.  sym is 0 (unsymmetric), 1 (symmetric) or -1 (antisymmetric).  *)
(***************************************************************************)
WfVariants == {"plain", "dgm", "dgmv"}

\* WeakForm::mfvol
mfvol(w) ==
  << [id |-> 1, i |-> 0, j |-> 0, sym |-> 1,  scaling_factor |-> 10,  areas |-> << "ANY" >>],
     [id |-> 2, i |-> 0, j |-> 1, sym |-> -1, scaling_factor |-> 20,  areas |-> << "ANY" >>],
     [id |-> 3, i |-> 1, j |-> 1, sym |-> 0,  scaling_factor |-> -10, areas |-> << "mat1" >>],
     [id |-> 4, i |-> 1, j |-> 0, sym |-> 1,  scaling_factor |-> 10,  areas |-> << "nowhere", "mat2" >>],
     [id |-> 5, i |-> 1, j |-> 1, sym |-> 0,  scaling_factor |-> 1,   areas |-> << "ANY" >>] >>

\* WeakForm::mfsurf
mfsurf(w) ==
  << [id |-> 6, i |-> 0, j |-> 0, sym |-> 1,  scaling_factor |-> 10, areas |-> << "left", "wall" >>],
     [id |-> 7, i |-> 1, j |-> 1, sym |-> 0,  scaling_factor |-> 10, areas |-> << "DG_BOUNDARY_EDGE" >>],
     [id |-> 8, i |-> 0, j |-> 1, sym |-> -1, scaling_factor |-> 10, areas |-> << "right" >>],
     [id |-> 9, i |-> 0, j |-> 0, sym |-> 0,  scaling_factor |-> -1, areas |-> << "ANY" >>] >>
  \o (IF w \in {"dgm", "dgmv"}
      THEN << [id |-> 10, i |-> 1, j |-> 1, sym |-> 0, scaling_factor |-> 10, areas |-> << "DG_INNER_EDGE" >>],
              [id |-> 11, i |-> 0, j |-> 1, sym |-> 0, scaling_factor |-> 20, areas |-> << "DG_INNER_EDGE" >>],
              [id |-> 12, i |-> 1, j |-> 1, sym |-> 0, scaling_factor |-> 1,  areas |-> << "DG_INNER_EDGE" >>] >>
      ELSE << >>)

\* WeakForm::vfvol
vfvol(w) ==
  << [id |-> 13, i |-> 0, scaling_factor |-> 10, areas |-> << "ANY" >>],
     [id |-> 14, i |-> 1, scaling_factor |-> 10, areas |-> << "nowhere", "mat3" >>],
     [id |-> 15, i |-> 1, scaling_factor |-> 20, areas |-> << "mat2" >>],
     [id |-> 16, i |-> 0, scaling_factor |-> 1,  areas |-> << "ANY" >>] >>

\* WeakForm::vfsurf
vfsurf(w) ==
  << [id |-> 17, i |-> 0, scaling_factor |-> 10, areas |-> << "right" >>],
     [id |-> 18, i |-> 1, scaling_factor |-> -1, areas |-> << "ANY" >>] >>
  \o (IF w = "dgmv"
      THEN << [id |-> 19, i |-> 1, scaling_factor |-> 10, areas |-> << "DG_INNER_EDGE" >>],
              [id |-> 20, i |-> 1, scaling_factor |-> 1,  areas |-> << "DG_INNER_EDGE" >>] >>
      ELSE << >>)

SeqToSet(q) == {q[k] : k \in 1 .. Len(q)}
MatrixForms(w) == SeqToSet(mfvol(w)) \cup SeqToSet(mfsurf(w))
VectorForms(w) == SeqToSet(vfvol(w)) \cup SeqToSet(vfsurf(w))

\* MatrixForm::value on an element (isurf = -1) or on a boundary edge, for the
\* trial shape function u and the test shape function v (their idx); not
\* symmetric in (u, v)
MatrixFormValue(f, e, isurf, u, v) == 2 * (1 + (f.id % 3) + 2 * v + u + e + (isurf + 1))

\* VectorForm::value on an element (isurf = -1) or on a boundary edge
VectorFormValue(f, e, isurf, v) == 2 * (1 + (f.id % 3) + v + e + (isurf + 1))

\* MatrixFormSurf::value of a DG form on the segment between two elements, for
\* DiscontinuousFunc u and v living on elements eu and ev.  The value is chosen
\* independent of the side the segment is assembled from.
DGMatrixFormValue(f, eu, u, ev, v) == 2 * (1 + (f.id % 3) + 2 * (3 * ev + v) + (3 * eu + u))

\* VectorFormSurf::value of a DG form on edge isurf of the central element e
DGVectorFormValue(f, e, isurf, v) == 2 * (1 + (f.id % 3) + v + e + isurf)

(***************************************************************************)
(* Block weights (Table): "NULL" is no table.                              *)
(***************************************************************************)
BlockWeights == {"NULL", "W", "Wbad"}
\* Table::get_size(): the table "Wbad" was made for one more equation
TableSize(t) == IF t = "Wbad" THEN neq + 1 ELSE neq
\* Table::get_A(i, j)
TableA(t, i, j) == IF i = 1 /\ j = 0 THEN 0 ELSE IF i = 0 /\ j = 1 THEN 2 ELSE 1

\* WeakForm::get_blocks(force_diagonal_blocks): block (m, n) is active if forced
\* on the diagonal, or if a matrix form with a non-negligible scaling factor
\* sits at (m, n), or at (n, m) with a symmetry flag
get_blocks(w, force_diagonal_blocks) ==
  [m \in Spaces |-> [n \in Spaces |->
     \/ (force_diagonal_blocks /\ m = n)
     \/ \E f \in MatrixForms(w) :
          /\ fabs(f.scaling_factor) >= Eps12
          /\ \/ (f.i = m /\ f.j = n)
             \/ (f.sym # 0 /\ f.i = n /\ f.j = m)]]

VARIABLES
  wfv,                  \* the weak form (its DG variant)
  space_seq,            \* Space::get_seq() of every space
  weak_seq,             \* WeakForm::get_seq()
  sp_seq,               \* DiscreteProblem::sp_seq
  wf_seq,               \* DiscreteProblem::wf_seq
  have_matrix,          \* DiscreteProblem::have_matrix
  space_first_dof,      \* Space::first_dof of every space
  spaces_first_dofs,    \* DiscreteProblem::spaces_first_dofs
  current_mat,          \* DiscreteProblem::current_mat
  current_rhs,          \* DiscreteProblem::current_rhs
  current_force_diagonal_blocks,
  current_block_weights,
  mats,                 \* the SparseMatrix objects
  rhss,                 \* the Vector objects
  visited,              \* Element::visited of every element of every mesh
  pc,                   \* where assemble() is: "idle", "run" (the parallel
                        \* region), or left by an exception
  trav_id,              \* trav_master.id, the shared traversal cursor
  omp_next,             \* next iteration of the omp for loop to hand out
  wpc,                  \* per thread: position in the loop body
  wstate,               \* per thread: current_state
  wisurf,               \* per thread: current_state.isurf in the DG loop
  processed,            \* per state: how often assemble_one_state ran on it
  adds,                 \* the add calls of the running (or last) pass
  mat_ops,              \* the structure calls of the last assemble on its matrix
  prev,                 \* arguments and result of the pass before the last one
  last,                 \* arguments and result of the last pass
  npasses,              \* assemble calls so far
  nchanges,             \* space / weak form changes so far
  writes,               \* the objects written in the parallel region, and by whom
  edge_case,            \* one DG edge: mode of the central element, active edge
  ns_in,                \* one DG edge: the neighbor searches as init_neighbors left them
  neighbor_searches,    \* one DG edge: the neighbor searches
  root,                 \* one DG edge: the multimesh tree
  epc,                  \* one DG edge: position in the body of the edge loop
  cur_ns,               \* one DG edge: index i of the loop over neighbor_searches
  loop_i,               \* update_neighbor_search: i
  loop_n,               \* update_neighbor_search: num_neighbors
  num_neighbors,        \* assemble_one_DG_state: num_neighbors
  segments,             \* one DG edge: the entries used for each assembled segment
  inserted,             \* a multimesh tree: the chains inserted since it was made
  tree_op,              \* a multimesh tree: the last call on it and what it returned
  accessed,             \* the e[i] of the states used so far: by which step, and how
  lpc,                  \* Linearizer::process_solution: position of the call
  lphase,               \* Linearizer::process_solution: the loop each worker is in
  state_i,              \* Linearizer::process_solution: state_i of each worker
  exceptionMessageCaughtInParallelBlock,
  recorded,             \* the messages workers have assigned to it in this call
  deallocs,             \* Linearizer::deallocate: the calls made in this call, by position
  late_starts,          \* states a worker entered after a message was recorded
  minus_one,            \* passes in which get_vertex returned -1 and the pass went on
  thrown,               \* the exceptions that have left process_solution
  tpc,                  \* Linearizer::process_triangle: position of the outermost call
  eps,                  \* Linearizer::eps, as num / den
  auto_max,             \* LinearizerBase::auto_max
  max,                  \* LinearizerBase::max
  sln,                  \* the solution the linearizer is given
  pending,              \* the calls of process_triangle still to be made, next first
  triangles             \* the triangles add_triangle has put out

vars == << wfv, space_seq, weak_seq, sp_seq, wf_seq, have_matrix, space_first_dof,
           spaces_first_dofs, current_mat, current_rhs, current_force_diagonal_blocks,
           current_block_weights, mats, rhss, visited, pc, trav_id, omp_next, wpc,
           wstate, wisurf, processed, adds, mat_ops, prev, last, npasses, nchanges,
           writes, edge_case, ns_in, neighbor_searches, root, epc, cur_ns, loop_i,
           loop_n, num_neighbors, segments, inserted, tree_op, absent, accessed, lpc, lphase,
           state_i, exceptionMessageCaughtInParallelBlock, recorded, deallocs,
           late_starts, minus_one, thrown, tpc, eps, auto_max, max, sln, pending,
           triangles >>

edgevars == << edge_case, ns_in, neighbor_searches, root, epc, cur_ns, loop_i, loop_n,
               num_neighbors, segments >>

treevars == << inserted, tree_op >>

nullvars == << absent, accessed >>

linvars == << lpc, lphase, state_i, exceptionMessageCaughtInParallelBlock, recorded,
              deallocs, late_starts, minus_one, thrown >>

trivars == << tpc, eps, auto_max, max, sln, pending, triangles >>

(***************************************************************************)
(* Which forms are assembled on a state or edge.                           *)
(***************************************************************************)
\* DiscreteProblem::block_scaling_coeff
block_scaling_coeff(f, bw) == IF bw # "NULL" THEN TableA(bw, f.i, f.j) ELSE 1

\* no scaling factor counts as negligible
scaling_never_negligible(f) == FALSE

\* the scaling-factor test of form_to_be_assembled
scaling_negligible(f) == fabs(f.scaling_factor) < Eps12

\* form_to_be_assembled(MatrixForm*, state)
form_to_be_assembled_MatrixForm(f, s, bw) ==
  /\ ~(StateE(s, f.i) = NoElem \/ StateE(s, f.j) = NoElem)
  /\ ~scaling_negligible(f)
  /\ ~(bw # "NULL" /\ fabs(TableA(bw, f.i, f.j)) < 1)

\* form_to_be_assembled(MatrixFormVol*, state)
form_to_be_assembled_MatrixFormVol(f, s, bw) ==
  /\ form_to_be_assembled_MatrixForm(f, s, bw)
  /\ \E ss \in 1 .. Len(f.areas) :
       \/ f.areas[ss] = "ANY"
       \/ LET c == ElementMarkersConversion(f.areas[ss])
          IN  c.valid /\ c.marker = ElemMarker(StateRep(s))

\* form_to_be_assembled(MatrixFormSurf*, state), state->isurf = isurf
form_to_be_assembled_MatrixFormSurf(f, s, isurf, bw) ==
  /\ EdgeMarker(StateRep(s), isurf) # 0
  /\ f.areas[1] # "DG_INNER_EDGE"
  /\ form_to_be_assembled_MatrixForm(f, s, bw)
  /\ \E ss \in 1 .. Len(f.areas) :
       \/ f.areas[ss] = "ANY"
       \/ f.areas[ss] = "DG_BOUNDARY_EDGE"
       \/ LET c == BoundaryMarkersConversion(f.areas[ss])
          IN  c.valid /\ c.marker = EdgeMarker(StateRep(s), isurf)

\* form_to_be_assembled(VectorForm*, state)
form_to_be_assembled_VectorForm(f, s) ==
  /\ StateE(s, f.i) # NoElem
  /\ ~scaling_negligible(f)

\* the areas of the form are not looked at
vector_form_on_every_area(f, s) == form_to_be_assembled_VectorForm(f, s)

\* form_to_be_assembled(VectorFormVol*, state)
form_to_be_assembled_VectorFormVol(f, s) ==
  /\ form_to_be_assembled_VectorForm(f, s)
  /\ \E ss \in 1 .. Len(f.areas) :
       \/ f.areas[ss] = "ANY"
       \/ LET c == ElementMarkersConversion(f.areas[ss])
          IN  c.valid /\ c.marker = ElemMarker(StateRep(s))

\* neither the first area of the form nor its other areas are looked at
vector_form_on_every_boundary_edge(f, s, isurf) ==
  /\ EdgeMarker(StateRep(s), isurf) # 0
  /\ form_to_be_assembled_VectorForm(f, s)

\* form_to_be_assembled(VectorFormSurf*, state), state->isurf = isurf
form_to_be_assembled_VectorFormSurf(f, s, isurf) ==
  /\ EdgeMarker(StateRep(s), isurf) # 0
  /\ f.areas[1] # "DG_INNER_EDGE"
  /\ form_to_be_assembled_VectorForm(f, s)
  /\ \E ss \in 1 .. Len(f.areas) :
       \/ f.areas[ss] = "ANY"
       \/ f.areas[ss] = "DG_BOUNDARY_EDGE"
       \/ LET c == BoundaryMarkersConversion(f.areas[ss])
          IN  c.valid /\ c.marker = EdgeMarker(StateRep(s), isurf)

(***************************************************************************)
(* Dense local blocks.  A block is a sequence of rows, 1-based.            *)
(***************************************************************************)
\* new_matrix<Scalar>(n): an n x n block of zeros
new_matrix(n) == [p \in 1 .. n |-> [q \in 1 .. n |-> 0]]

\* chsgn(matrix, m, n): negate the m x n part
chsgn(M, m, n) ==
  [p \in 1 .. Len(M) |-> [q \in 1 .. Len(M) |->
     IF p <= m /\ q <= n THEN -M[p][q] ELSE M[p][q]]]

\* transpose(matrix, m, n): the n x m part of the result is the transpose of
\* the m x n part of the argument
transpose(M, m, n) ==
  [p \in 1 .. Len(M) |-> [q \in 1 .. Len(M) |->
     IF p <= n /\ q <= m THEN M[q][p] ELSE M[p][q]]]

\* a shape function that takes part: a free dof with a non-negligible coefficient
ActiveShape(al, p) == p <= Len(al) /\ al[p].dof >= 0 /\ ~(fabs(al[p].coef) < 1)

\* 0.5 * x, x even
Half(x) == x \div 2

\* the value assemble_matrix_form computes for test function p and trial function q
form_entry(f, s, isurf, ali, alj, bw, p, q) ==
  block_scaling_coeff(f, bw)
    * MatrixFormValue(f, StateRep(s), isurf, alj[q].idx, ali[p].idx)
    * f.scaling_factor * alj[q].coef * ali[p].coef

\* assemble_matrix_form, "if (!sym)": entry [p][q] of the local block
unsym_block_entry(f, surface_form, s, isurf, ali, alj, bw, p, q) ==
  IF ActiveShape(ali, p) /\ ActiveShape(alj, q)
  THEN IF surface_form
       THEN Half(form_entry(f, s, isurf, ali, alj, bw, p, q))
       ELSE form_entry(f, s, isurf, ali, alj, bw, p, q)
  ELSE 0

\* the symmetric loop without the store at [j][i]
upper_block_entry(f, surface_form, s, isurf, ali, alj, bw, p, q) ==
  IF p <= q /\ ActiveShape(ali, p) /\ ActiveShape(alj, q)
  THEN form_entry(f, s, isurf, ali, alj, bw, p, q)
  ELSE 0

\* assemble_matrix_form, "Symmetric block": the loop computes val for j >= i
\* only and stores it at [i][j] and [j][i]
sym_block_entry(f, surface_form, s, isurf, ali, alj, bw, p, q) ==
  LET lo == IF p <= q THEN p ELSE q
      hi == IF p <= q THEN q ELSE p
  IN  IF ActiveShape(ali, lo) /\ ActiveShape(alj, hi)
      THEN form_entry(f, s, isurf, ali, alj, bw, lo, hi)
      ELSE 0

\* assemble_matrix_form: tra and sym
form_tra(f) == (f.i # f.j) /\ (f.sym # 0)
form_sym(f) == (f.i = f.j) /\ (f.sym = 1)

\* assemble_matrix_form: the local stiffness matrix of form f
local_stiffness_matrix(f, surface_form, s, isurf, als, bw) ==
  LET ali == als[f.i]
      alj == als[f.j]
      n   == Max2(Len(ali), Len(alj))
      Z   == new_matrix(n)
  IN  [p \in 1 .. n |-> [q \in 1 .. n |->
        IF p <= Len(ali) /\ q <= Len(alj)
        THEN IF form_sym(f)
             THEN sym_block_entry(f, surface_form, s, isurf, ali, alj, bw, p, q)
             ELSE unsym_block_entry(f, surface_form, s, isurf, ali, alj, bw, p, q)
        ELSE Z[p][q]]]

DofsOf(al) == [k \in 1 .. Len(al) |-> al[k].dof]

\* the transpose without the change of sign
transposed_block(f, M, m, n) == transpose(M, m, n)

\* the block assemble_matrix_form adds second, at (rows of j, columns of i)
mirrored_block(f, M, m, n) ==
  transpose(IF f.sym < 0 THEN chsgn(M, m, n) ELSE M, m, n)

\* assemble_matrix_form: the current_mat->add calls of form f, in order
assemble_matrix_form(f, surface_form, s, isurf, als, bw) ==
  LET M     == local_stiffness_matrix(f, surface_form, s, isurf, als, bw)
      m     == Len(als[f.i])
      n     == Len(als[f.j])
      path  == IF surface_form THEN "surf" ELSE "vol"
      first == [form |-> f.id, path |-> path, state |-> s, isurf |-> isurf,
                second |-> FALSE, m |-> m, n |-> n, block |-> M,
                rows |-> DofsOf(als[f.i]), cols |-> DofsOf(als[f.j])]
  IN  IF form_tra(f)
      THEN { first,
             [form |-> f.id, path |-> path, state |-> s, isurf |-> isurf,
              second |-> TRUE, m |-> n, n |-> m, block |-> mirrored_block(f, M, m, n),
              rows |-> DofsOf(als[f.j]), cols |-> DofsOf(als[f.i])] }
      ELSE { first }

\* assemble_vector_form: the current_rhs->add calls of form f
assemble_vector_form(f, surface_form, s, isurf, als) ==
  LET al == als[f.i]
  IN  { [form |-> f.id, path |-> IF surface_form THEN "surf" ELSE "vol",
         state |-> s, isurf |-> isurf, p |-> p, dof |-> al[p].dof,
         val |-> IF surface_form
                 THEN Half(VectorFormValue(f, StateRep(s), isurf, al[p].idx)
                             * f.scaling_factor * al[p].coef)
                 ELSE VectorFormValue(f, StateRep(s), isurf, al[p].idx)
                        * f.scaling_factor * al[p].coef]
        : p \in {k \in 1 .. Len(al) : ActiveShape(al, k)} }

(***************************************************************************)
(* One state of the pass.  cx is the context of the pass: the weak form w, *)
(* whether current_mat and current_rhs are non-null (mat, rhs), the block  *)
(* weights bw, and the numbering of the spaces (seq, base, off =           *)
(* spaces_first_dofs).                                                     *)
(***************************************************************************)
\* init_state: current_als of the state
ElementAls(cx, s) ==
  [i \in Spaces |->
     get_element_assembly_list(i, StateE(s, i), cx.seq[i], cx.base[i], cx.off[i])]

\* init_surface_state: current_als on edge isurf
SurfaceAls(cx, s, isurf) ==
  [i \in Spaces |->
     get_boundary_assembly_list(i, StateE(s, i), isurf, cx.seq[i], cx.base[i], cx.off[i])]

UnionOf(SS) == UNION SS

\* assemble_one_state: all add calls of the volume and boundary-surface forms
assemble_one_state(cx, s) ==
  LET als  == ElementAls(cx, s)
      bnds == {isurf \in Surfs(StateRep(s)) : StateBnd(s, isurf)}
  IN  [mat |->
         IF cx.mat
         THEN UnionOf({assemble_matrix_form(f, FALSE, s, -1, als, cx.bw) :
                         f \in {g \in SeqToSet(mfvol(cx.w)) :
                                  form_to_be_assembled_MatrixFormVol(g, s, cx.bw)}})
              \cup
              UnionOf({UnionOf({assemble_matrix_form(f, TRUE, s, isurf,
                                                      SurfaceAls(cx, s, isurf), cx.bw) :
                         f \in {g \in SeqToSet(mfsurf(cx.w)) :
                                  form_to_be_assembled_MatrixFormSurf(g, s, isurf, cx.bw)}})
                       : isurf \in bnds})
         ELSE {},
       rhs |->
         IF cx.rhs
         THEN UnionOf({assemble_vector_form(f, FALSE, s, -1, als) :
                         f \in {g \in SeqToSet(vfvol(cx.w)) :
                                  form_to_be_assembled_VectorFormVol(g, s)}})
              \cup
              UnionOf({UnionOf({assemble_vector_form(f, TRUE, s, isurf,
                                                      SurfaceAls(cx, s, isurf)) :
                         f \in {g \in SeqToSet(vfsurf(cx.w)) :
                                  form_to_be_assembled_VectorFormSurf(g, s, isurf)}})
                       : isurf \in bnds})
         ELSE {}]

\* current_als as assemble_one_state leaves them: init_surface_state of the
\* last boundary edge has overwritten the element lists
AlsAfterOneState(cx, s) ==
  LET bnds == {isurf \in Surfs(StateRep(s)) : StateBnd(s, isurf)}
  IN  IF bnds = {}
      THEN ElementAls(cx, s)
      ELSE SurfaceAls(cx, s, CHOOSE a \in bnds : \A b \in bnds : b <= a)

(***************************************************************************)
(* DG.                                                                     *)
(***************************************************************************)
\* DiscreteProblem::DG_matrix_forms_present, DG_vector_forms_present
DG_matrix_forms_present(w) == \E f \in SeqToSet(mfsurf(w)) : f.areas[1] = "DG_INNER_EDGE"
DG_vector_forms_present(w) == \E f \in SeqToSet(vfsurf(w)) : f.areas[1] = "DG_INNER_EDGE"
DG_forms_present(w) == DG_matrix_forms_present(w) \/ DG_vector_forms_present(w)

\* NeighborSearch::create_extended_asmlist: the central list followed by the
\* neighbor's list, each entry tagged with the element it has support on
ExtendedShapeset(cx, i, central_al, e, nb) ==
  LET neighbor_al == get_element_assembly_list(i, nb, cx.seq[i], cx.base[i], 0)
  IN  [k \in 1 .. Len(central_al) |->
         [idx |-> central_al[k].idx, dof |-> central_al[k].dof,
          coef |-> central_al[k].coef, elem |-> e]]
      \o
      [k \in 1 .. Len(neighbor_al) |->
         [idx |-> neighbor_al[k].idx, dof |-> neighbor_al[k].dof,
          coef |-> neighbor_al[k].coef, elem |-> nb]]

\* assemble_DG_one_neighbor: the add calls on the segment of edge isurf of
\* state s shared with neighbor nb
assemble_DG_one_neighbor(cx, edge_processed, s, isurf, nb) ==
  LET als == AlsAfterOneState(cx, s)
      e   == StateRep(s)
  IN  [mat |->
         IF cx.mat /\ DG_matrix_forms_present(cx.w) /\ ~edge_processed
         THEN { LET ext_u == ExtendedShapeset(cx, f.j, als[f.j], e, nb)
                    ext_v == ExtendedShapeset(cx, f.i, als[f.i], e, nb)
                    n     == Max2(Len(ext_u), Len(ext_v))
                IN  [form |-> f.id, path |-> "dg", state |-> s, isurf |-> isurf,
                     second |-> FALSE, m |-> Len(ext_v), n |-> Len(ext_u),
                     block |-> [p \in 1 .. n |-> [q \in 1 .. n |->
                        IF p <= Len(ext_v) /\ q <= Len(ext_u)
                           /\ ext_v[p].dof >= 0 /\ ext_u[q].dof >= 0
                        THEN Half(block_scaling_coeff(f, cx.bw)
                                  * DGMatrixFormValue(f, ext_u[q].elem, ext_u[q].idx,
                                                      ext_v[p].elem, ext_v[p].idx)
                                  * f.scaling_factor * ext_u[q].coef * ext_v[p].coef)
                        ELSE new_matrix(n)[p][q]]],
                     rows |-> DofsOf(ext_v), cols |-> DofsOf(ext_u)]
                : f \in {g \in SeqToSet(mfsurf(cx.w)) :
                           /\ form_to_be_assembled_MatrixForm(g, s, cx.bw)
                           /\ g.areas[1] = "DG_INNER_EDGE"} }
         ELSE {},
       rhs |->
         IF cx.rhs /\ DG_vector_forms_present(cx.w)
         THEN UnionOf({ { [form |-> f.id, path |-> "dg", state |-> s, isurf |-> isurf,
                           p |-> p, dof |-> als[f.i][p].dof,
                           val |-> Half(DGVectorFormValue(f, e, isurf, als[f.i][p].idx)
                                        * f.scaling_factor * als[f.i][p].coef)]
                          : p \in {k \in 1 .. Len(als[f.i]) : als[f.i][k].dof >= 0} }
                        : f \in {g \in SeqToSet(vfsurf(cx.w)) :
                                   /\ g.areas[1] = "DG_INNER_EDGE"
                                   /\ form_to_be_assembled_VectorForm(g, s)} })
         ELSE {}]

NoAdds == [mat |-> {}, rhs |-> {}]
JoinAdds(a, b) == [mat |-> a.mat \cup b.mat, rhs |-> a.rhs \cup b.rhs]

\* assemble_one_DG_state, "processed": every neighbor search finds the
\* neighbor of this segment marked as visited
segment_processed(vis, nb) == \A i \in Spaces : vis[i][nb]

\* every segment found processed is skipped, whatever forms are present
skip_processed_edge(cx, s, isurf, vis) ==
  LET nb == NeighborOf(StateRep(s), isurf)
  IN  IF segment_processed(vis, nb)
      THEN NoAdds
      ELSE assemble_DG_one_neighbor(cx, FALSE, s, isurf, nb)

\* assemble_one_DG_state: one interior edge (marker 0) of state s, with the
\* visited flags vis as read when the edge is reached
assemble_DG_edge(cx, s, isurf, vis) ==
  LET nb        == NeighborOf(StateRep(s), isurf)
      edge_done == segment_processed(vis, nb)
  IN  IF ~DG_vector_forms_present(cx.w) /\ edge_done
      THEN NoAdds
      ELSE assemble_DG_one_neighbor(cx, edge_done, s, isurf, nb)

\* the interior edges of the state's representative element
DGEdges(s) == {isurf \in Surfs(StateRep(s)) : EdgeMarker(StateRep(s), isurf) = 0}

(***************************************************************************)
(* SparseMatrix and Vector.                                                *)
(***************************************************************************)
Mats == {"A", "B"}
Rhss == {"R"}

RECURSIVE SumF(_, _)
\* the sum of f[x] over x in S
SumF(f, S) ==
  IF S = {} THEN 0
  ELSE LET x == CHOOSE y \in S : TRUE IN f[x] + SumF(f, S \ {x})

ZeroMatVal == [rc \in Dofs \X Dofs |-> 0]
ZeroRhsVal == [d \in Dofs |-> 0]

\* SparseMatrix::add(m, n, mat, rows, cols): what one call adds at (row, col);
\* entries with a negative row or column index are not added
Contribution(rec, row, col) ==
  LET hits == {pq \in (1 .. rec.m) \X (1 .. rec.n) :
                 rec.rows[pq[1]] = row /\ rec.cols[pq[2]] = col}
  IN  SumF([pq \in hits |-> rec.block[pq[1]][pq[2]]], hits)

\* the matrix values after one add call
matrix_add(val, rec) ==
  [rc \in Dofs \X Dofs |-> val[rc] + Contribution(rec, rc[1], rc[2])]

RECURSIVE MatAfter(_, _)
\* the matrix values after the add calls recs
MatAfter(val, recs) ==
  IF recs = {} THEN val
  ELSE LET r == CHOOSE x \in recs : TRUE
       IN  MatAfter(matrix_add(val, r), recs \ {r})

RECURSIVE RhsAfter(_, _)
\* the vector values after the Vector::add(dof, val) calls recs
RhsAfter(val, recs) ==
  IF recs = {} THEN val
  ELSE LET r == CHOOSE x \in recs : TRUE
       IN  RhsAfter([val EXCEPT ![r.dof] = @ + r.val], recs \ {r})

(***************************************************************************)
(* create_sparse_structure.                                                *)
(***************************************************************************)
\* the sequence numbers alone, without have_matrix
seqs_up_to_date ==
  /\ \A i \in Spaces : space_seq[i] = sp_seq[i]
  /\ weak_seq = wf_seq

\* DiscreteProblem::is_up_to_date
is_up_to_date ==
  /\ have_matrix
  /\ \A i \in Spaces : space_seq[i] = sp_seq[i]
  /\ weak_seq = wf_seq

\* create_sparse_structure: is_DG
is_DG(w) == DG_forms_present(w)

\* Space::assign_dofs(spaces): the spaces are numbered one after the other
AssignedFirstDofs == [i \in Spaces |-> i * NumElems]

FreeDofs(al) == {al[k].dof : k \in {x \in 1 .. Len(al) : al[x].dof >= 0}}

\* create_sparse_structure: the pre_add_ij calls of one traversal state
state_pattern(w, blocks, seq, base, off, s) ==
  LET al(i, e) == IF is_DG(w)
                  THEN get_element_assembly_list(i, e, seq[i], base[i], 0)
                  ELSE get_element_assembly_list(i, e, seq[i], base[i], off[i])
      dg == IF is_DG(w)
            THEN UnionOf({
                   LET m  == x[1]
                       el == x[2]
                       nb == NeighborOf(StateE(s, el), x[3])
                   IN  IF nb # NoElem /\ (blocks[m][el] \/ blocks[el][m])
                          /\ StateE(s, m) # NoElem
                       THEN LET am == FreeDofs(al(m, StateE(s, m)))
                                an == FreeDofs(get_element_assembly_list(
                                                 el, nb, seq[el], base[el], 0))
                            IN  (IF blocks[m][el] THEN am \X an ELSE {})
                                \cup (IF blocks[el][m] THEN an \X am ELSE {})
                       ELSE {}
                   : x \in Spaces \X Spaces \X Surfs(StateE(s, 0)) })
            ELSE {}
      vol == UnionOf({
               IF blocks[x[1]][x[2]] /\ StateE(s, x[1]) # NoElem /\ StateE(s, x[2]) # NoElem
               THEN FreeDofs(al(x[1], StateE(s, x[1]))) \X FreeDofs(al(x[2], StateE(s, x[2])))
               ELSE {}
               : x \in Spaces \X Spaces })
  IN  dg \cup vol

\* create_sparse_structure: all nonzeros declared before current_mat->alloc()
sparse_pattern(w, fdb, seq, base, off) ==
  UnionOf({state_pattern(w, get_blocks(w, fdb), seq, base, off, s) : s \in States})

\* the sequence numbers are left as they were
stale_sp_seq == sp_seq

\* the sequence numbers create_sparse_structure saves
saved_sp_seq == space_seq
saved_wf_seq == weak_seq

\* current_mat->zero()
matrix_zero(M) == [M EXCEPT !.val = ZeroMatVal]

\* current_mat->free(); prealloc(ndof); pre_add_ij(...); alloc()
matrix_rebuild(M, pattern, seqs, wseq) ==
  [allocated |-> TRUE, pattern |-> pattern, val |-> ZeroMatVal,
   built |-> [sp |-> seqs, wf |-> wseq]]

\* current_rhs->alloc(ndof) and current_rhs->zero()
vector_alloc(V) == [len |-> ndof, val |-> ZeroRhsVal]
vector_zero(V) == [V EXCEPT !.val = ZeroRhsVal]

\* create_sparse_structure(), after assemble has set current_mat, current_rhs
\* and current_force_diagonal_blocks to mat, rhs and fdb: the members and
\* objects it leaves, and the calls it made on the matrix (mat_ops)
create_sparse_structure(mat, rhs, fdb) ==
  IF is_up_to_date
  THEN [have_matrix |-> have_matrix,
        space_first_dof |-> space_first_dof,
        spaces_first_dofs |-> spaces_first_dofs,
        mats |-> IF mat # "NULL" THEN [mats EXCEPT ![mat] = matrix_zero(@)] ELSE mats,
        rhss |-> IF rhs # "NULL"
                 THEN [rhss EXCEPT ![rhs] = IF @.len = 0 THEN vector_alloc(@)
                                                         ELSE vector_zero(@)]
                 ELSE rhss,
        mat_ops |-> IF mat # "NULL" THEN << "zero" >> ELSE << >>,
        sp_seq |-> sp_seq,
        wf_seq |-> wf_seq]
  ELSE LET base == IF mat # "NULL" /\ is_DG(wfv) THEN AssignedFirstDofs
                                                 ELSE space_first_dof
           off  == IF mat # "NULL" /\ is_DG(wfv) THEN [i \in Spaces |-> 0]
                                                 ELSE spaces_first_dofs
       IN  [have_matrix |-> IF mat # "NULL" THEN TRUE ELSE have_matrix,
            space_first_dof |-> base,
            spaces_first_dofs |-> off,
            mats |-> IF mat # "NULL"
                     THEN [mats EXCEPT ![mat] =
                             matrix_rebuild(@, sparse_pattern(wfv, fdb, space_seq, base, off),
                                            space_seq, weak_seq)]
                     ELSE mats,
            rhss |-> IF rhs # "NULL" THEN [rhss EXCEPT ![rhs] = vector_alloc(@)] ELSE rhss,
            mat_ops |-> IF mat # "NULL" THEN << "free", "prealloc", "alloc" >> ELSE << >>,
            sp_seq |-> saved_sp_seq,
            wf_seq |-> saved_wf_seq]

(***************************************************************************)
(* The multimesh tree of one interior edge of one state.  A neighbor       *)
(* search is the sequence of its neighbor entries (neighbors,              *)
(* neighbor_edges, central_transformations and neighbor_transformations    *)
(* at one index); a transformation chain that is not present is the empty  *)
(* chain.  A tree node is named by the path of transformation codes from   *)
(* the root to it; sons[node] lists the left son, then the right son.      *)
(***************************************************************************)
\* the indices (mesh seq - min_dg_mesh_seq) at which neighbor_searches holds a
\* neighbor search
DGMeshes == {0, 1}

\* unsigned int arithmetic
UInt(x) == x % (2 ^ UIntBits)

\* update_ns_subtree returns 0 after it has split an entry
AddedZero == UInt(0)

\* the value of "return -1" in a function that returns unsigned int
UIntMinusOne == UInt((2 ^ UIntBits) - 1)

NumEdges(mode) == IF mode = "TRIANGLE" THEN 3 ELSE 4

\* the transformation codes of the two sons that touch edge active_edge, in
\* the order along the edge
EdgeSons(mode, active_edge) == << active_edge, (active_edge + 1) % NumEdges(mode) >>

\* new NeighborNode(NULL, 0)
NewRoot == [sons |-> (<< >> :> << >>), error |-> FALSE]

IsLeaf(tree, node) == tree.sons[node] = << >>

\* a son pointer that is NULL beside one that is set
NoSon == -1

\* node->set_left_son(new NeighborNode(node, transformation))
set_left_son(tree, node, transformation) ==
  [tree EXCEPT !.sons = [@ EXCEPT ![node] = IF @ = << >> THEN << transformation >>
                                            ELSE [@ EXCEPT ![1] = transformation]]
                          @@ (Append(node, transformation) :> << >>)]

\* node->set_right_son(new NeighborNode(node, transformation))
set_right_son(tree, node, transformation) ==
  [tree EXCEPT !.sons = [@ EXCEPT ![node] =
                           IF @ = << >> THEN << NoSon, transformation >>
                           ELSE IF Len(@) = 1 THEN Append(@, transformation)
                           ELSE [@ EXCEPT ![2] = transformation]]
                          @@ (Append(node, transformation) :> << >>)]

\* a further son behind the sons the node has
add_son(tree, node, transformation) ==
  [tree EXCEPT !.sons = [@ EXCEPT ![node] = Append(@, transformation)]
                          @@ (Append(node, transformation) :> << >>)]

RECURSIVE insert_any_son(_, _, _)
\* an insertion that gives a node a further son whenever no son matches
insert_any_son(tree, node, transformations) ==
  IF tree.error \/ transformations = << >> THEN tree
  ELSE LET t == Head(transformations)
       IN  IF \E k \in 1 .. Len(tree.sons[node]) : tree.sons[node][k] = t
           THEN insert_any_son(tree, Append(node, t), Tail(transformations))
           ELSE insert_any_son(add_son(tree, node, t), Append(node, t),
                               Tail(transformations))

RECURSIVE insert_into_multimesh_tree(_, _, _)
\* DiscreteProblem::insert_into_multimesh_tree; error() ends the program
insert_into_multimesh_tree(tree, node, transformations) ==
  IF tree.error \/ transformations = << >> THEN tree
  ELSE LET t    == Head(transformations)
           sons == tree.sons[node]
       IN  IF sons = << >>
           THEN insert_into_multimesh_tree(set_left_son(tree, node, t), Append(node, t),
                                           Tail(transformations))
           ELSE IF sons[1] = t
           THEN insert_into_multimesh_tree(tree, Append(node, t), Tail(transformations))
           ELSE IF Len(sons) = 2
           THEN IF sons[2] = t
                THEN insert_into_multimesh_tree(tree, Append(node, t),
                                                Tail(transformations))
                ELSE [tree EXCEPT !.error = TRUE]
           ELSE insert_into_multimesh_tree(set_right_son(tree, node, t), Append(node, t),
                                           Tail(transformations))

RECURSIVE insert_neighbors(_, _, _)
\* build_multimesh_tree: the loop over the neighbors j of one neighbor search
insert_neighbors(tree, ns, j) ==
  IF j > Len(ns) THEN tree
  ELSE insert_neighbors(
         insert_into_multimesh_tree(tree, << >>, ns[j].central_transformations),
         ns, j + 1)

RECURSIVE build_multimesh_tree(_, _, _)
\* DiscreteProblem::build_multimesh_tree, from neighbor search i on
build_multimesh_tree(tree, searches, i) ==
  IF i \notin DGMeshes THEN tree
  ELSE LET ns == searches[i]
       IN  IF Len(ns) = 1 /\ Len(ns[1].central_transformations) = 0
           THEN build_multimesh_tree(tree, searches, i + 1)
           ELSE build_multimesh_tree(insert_neighbors(tree, ns, 1),
                                     searches, i + 1)

RECURSIVE find_left_node(_, _, _)
\* a search that follows left sons only
find_left_node(transformations, node, tree) ==
  IF transformations = << >> THEN [found |-> TRUE, node |-> node]
  ELSE LET t    == Head(transformations)
           sons == tree.sons[node]
       IN  IF Len(sons) >= 1 /\ sons[1] = t
           THEN find_left_node(Tail(transformations), Append(node, t), tree)
           ELSE [found |-> FALSE, node |-> node]

RECURSIVE find_node(_, _, _)
\* DiscreteProblem::find_node; found = FALSE is the call of error()
find_node(transformations, node, tree) ==
  IF transformations = << >> THEN [found |-> TRUE, node |-> node]
  ELSE LET t    == Head(transformations)
           sons == tree.sons[node]
       IN  IF Len(sons) >= 1 /\ sons[1] = t
           THEN find_node(Tail(transformations), Append(node, t), tree)
           ELSE IF Len(sons) = 2 /\ sons[2] = t
           THEN find_node(Tail(transformations), Append(node, t), tree)
           ELSE [found |-> FALSE, node |-> node]

\* traverse_multimesh_subtree: the code pushed on the running neighbor
\* transformation for a node with transformation t
neighbor_transformation(t, edge_info, active_edge, mode) ==
  LET first ==
        IF mode = "TRIANGLE"
        THEN \/ (active_edge = 0 /\ t = 0)
             \/ (active_edge = 1 /\ t = 1)
             \/ (active_edge = 2 /\ t = 2)
        ELSE \/ (active_edge = 0 /\ (t = 0 \/ t = 6))
             \/ (active_edge = 1 /\ (t = 1 \/ t = 4))
             \/ (active_edge = 2 /\ (t = 2 \/ t = 7))
             \/ (active_edge = 3 /\ (t = 3 \/ t = 5))
      next == (edge_info.local_num_of_edge + 1) % NumEdges(mode)
  IN  IF first
      THEN IF edge_info.orientation = 0 THEN edge_info.local_num_of_edge ELSE next
      ELSE IF edge_info.orientation # 0 THEN edge_info.local_num_of_edge ELSE next

\* v.back()->push_back(t) and v.back()->pop_back() on a vector of vectors
back_push_back(v, t) == [v EXCEPT ![Len(v)] = Append(@, t)]
back_pop_back(v) == [v EXCEPT ![Len(v)] = SubSeq(@, 1, Len(@) - 1)]

\* the running transformations started from empty chains
running_from_empty(entry) == [central |-> << << >> >>, neighbor |-> << << >> >>]

\* the running transformations at the start of update_ns_subtree: one vector
\* with a copy of the chains of the entry
running_start(entry) ==
  [central |-> << entry.central_transformations >>,
   neighbor |-> << entry.neighbor_transformations >>]

RECURSIVE traverse_multimesh_subtree(_, _, _, _, _, _)
\* DiscreteProblem::traverse_multimesh_subtree
traverse_multimesh_subtree(tree, node, running, edge_info, active_edge, mode) ==
  LET t  == node[Len(node)]
      nt == neighbor_transformation(t, edge_info, active_edge, mode)
  IN  IF IsLeaf(tree, node)
      THEN [central  |-> Append(back_push_back(running.central, t),
                                running.central[Len(running.central)]),
            neighbor |-> Append(back_push_back(running.neighbor, nt),
                                running.neighbor[Len(running.neighbor)])]
      ELSE LET sons == tree.sons[node]
               down == [central  |-> back_push_back(running.central, t),
                        neighbor |-> back_push_back(running.neighbor, nt)]
               left == traverse_multimesh_subtree(tree, Append(node, sons[1]), down,
                                                  edge_info, active_edge, mode)
               both == IF Len(sons) = 2
                       THEN traverse_multimesh_subtree(tree, Append(node, sons[2]), left,
                                                       edge_info, active_edge, mode)
                       ELSE left
           IN  [central  |-> back_pop_back(both.central),
                neighbor |-> back_pop_back(both.neighbor)]

\* NeighborSearch::delete_neighbor(position)
delete_neighbor(ns, position) ==
  SubSeq(ns, 1, position) \o SubSeq(ns, position + 2, Len(ns))

\* DiscreteProblem::update_ns_subtree(ns, node, ith_neighbor): the neighbor
\* search afterwards and the value returned
update_ns_subtree(tree, ns, node, ith_neighbor, active_edge, mode) ==
  IF IsLeaf(tree, node) THEN [ns |-> ns, added |-> 0]
  ELSE LET entry == ns[ith_neighbor + 1]
           sons  == tree.sons[node]
           left  == traverse_multimesh_subtree(tree, Append(node, sons[1]),
                                               running_start(entry), entry.edge_info,
                                               active_edge, mode)
           both  == IF Len(sons) = 2
                    THEN traverse_multimesh_subtree(tree, Append(node, sons[2]), left,
                                                    entry.edge_info, active_edge, mode)
                    ELSE left
           count == Len(both.central) - 1
       IN  [ns |-> delete_neighbor(ns, ith_neighbor) \o
                   [k \in 1 .. count |->
                      [neighbor |-> entry.neighbor, edge_info |-> entry.edge_info,
                       central_transformations |-> both.central[k],
                       neighbor_transformations |-> both.neighbor[k]]],
            added |-> UIntMinusOne]

\* the counts of the neighbor searches are not compared
neighbors_never_compared(n_neighbors, first_n_neighbors) == FALSE

\* assemble_one_DG_state: "if (ns->n_neighbors != num_neighbors) error(...)"
neighbors_not_matching(n_neighbors, first_n_neighbors) ==
  n_neighbors # first_n_neighbors

(***************************************************************************)
(* The neighbor searches init_neighbors hands over for one edge.           *)
(***************************************************************************)
RECURSIVE Partitions(_, _, _)
\* the ways a mesh divides the part of the edge reached by chain, at most
\* depth levels deeper: the chains of its active neighbors along the edge
Partitions(chain, depth, sons) ==
  { << chain >> } \cup
  (IF depth = 0 THEN {}
   ELSE { l \o r : l \in Partitions(Append(chain, sons[1]), depth - 1, sons),
                   r \in Partitions(Append(chain, sons[2]), depth - 1, sons) })

\* the central transformation chains one neighbor search can start with: a
\* division of the whole edge, or one neighbor reached through one
\* transformation of the central element
CentralChains(sons) ==
  Partitions(<< >>, MaxLevels, sons) \cup { << << sons[1] >> >>, << << sons[2] >> >> }

\* the chains divide the whole edge
IsPartition(chains, sons) == chains \in Partitions(<< >>, MaxLevels, sons)

\* the neighbor search of mesh i with the given central chains: every neighbor
\* is an element of its own with its own edge info; a single neighbor of mesh
\* 1 that needs no central transformation is larger than the central element
\* (one neighbor transformation)
InitialSearch(i, chains, orientation, local_num_of_edge, mode) ==
  [k \in 1 .. Len(chains) |->
     [neighbor |-> 10 * (i + 1) + k,
      edge_info |-> [orientation |-> orientation,
                     local_num_of_edge |-> (local_num_of_edge + k) % NumEdges(mode)],
      central_transformations |-> chains[k],
      neighbor_transformations |->
        IF i = 1 /\ Len(chains) = 1 /\ chains[1] = << >>
        THEN << local_num_of_edge >> ELSE << >>]]

\* the modes of the central element and its active edges
EdgeCases ==
  { [mode |-> "TRIANGLE", active_edge |-> e] : e \in 0 .. 2 } \cup
  { [mode |-> "QUAD", active_edge |-> e] : e \in 0 .. 3 }

(***************************************************************************)
(* The state machine.                                                      *)
(***************************************************************************)
NoResult == [valid |-> FALSE, mat |-> "NULL", rhs |-> "NULL", fdb |-> FALSE,
             bw |-> "NULL", seq |-> [i \in Spaces |-> 0], wseq |-> 0,
             matval |-> ZeroMatVal, rhsval |-> ZeroRhsVal]

NoVisited == [i \in Spaces |-> [e \in Elements |-> FALSE]]

\* no edge is being worked on
NoSearches == [i \in DGMeshes |-> << >>]

\* no call on the tree yet
NoTreeOp == [op |-> "none", chain |-> << >>, found |-> FALSE, node |-> << >>]

\* the state after construction, whatever fields the states lack
InitAny ==
  /\ wfv \in WfVariants
  /\ space_seq = [i \in Spaces |-> 0]
  /\ weak_seq = 0
  /\ sp_seq = [i \in Spaces |-> -1]
  /\ wf_seq = -1
  /\ have_matrix = FALSE
  /\ space_first_dof = [i \in Spaces |-> 0]
  /\ spaces_first_dofs = [i \in Spaces |-> i * NumElems]
  /\ current_mat = "NULL"
  /\ current_rhs = "NULL"
  /\ current_force_diagonal_blocks = FALSE
  /\ current_block_weights = "NULL"
  /\ mats = [m \in Mats |-> [allocated |-> FALSE, pattern |-> {}, val |-> ZeroMatVal,
                             built |-> [sp |-> [i \in Spaces |-> -1], wf |-> -1]]]
  /\ rhss = [r \in Rhss |-> [len |-> 0, val |-> ZeroRhsVal]]
  /\ visited = NoVisited
  /\ pc = "idle"
  /\ trav_id = 0
  /\ omp_next = 0
  /\ wpc = [t \in Threads |-> "idle"]
  /\ wstate = [t \in Threads |-> 0]
  /\ wisurf = [t \in Threads |-> 0]
  /\ processed = [s \in States |-> 0]
  /\ adds = NoAdds
  /\ mat_ops = << >>
  /\ prev = NoResult
  /\ last = NoResult
  /\ npasses = 0
  /\ nchanges = 0
  /\ writes = {}
  /\ edge_case = [mode |-> "QUAD", active_edge |-> 0]
  /\ ns_in = NoSearches
  /\ neighbor_searches = NoSearches
  /\ root = NewRoot
  /\ epc = "idle"
  /\ cur_ns = 0
  /\ loop_i = 0
  /\ loop_n = 0
  /\ num_neighbors = 0
  /\ segments = << >>
  /\ inserted = {}
  /\ tree_op = NoTreeOp
  /\ accessed = {}
  /\ lpc = "idle"
  /\ lphase = [t \in Threads |-> 0]
  /\ state_i = [t \in Threads |-> 0]
  /\ exceptionMessageCaughtInParallelBlock = ""
  /\ recorded = << >>
  /\ deallocs = << >>
  /\ late_starts = {}
  /\ minus_one = {}
  /\ thrown = << >>
  /\ tpc = "idle"
  /\ eps = [num |-> 1, den |-> 1]
  /\ auto_max = TRUE
  /\ max = 0
  /\ sln = "linear"
  /\ pending = << >>
  /\ triangles = {}

\* every field has an element in every state
Init == InitAny /\ absent = {}

passvars == << visited, pc, trav_id, omp_next, wpc, wstate, wisurf >>
dpvars == << sp_seq, wf_seq, have_matrix, space_first_dof, spaces_first_dofs,
             current_mat, current_rhs, current_force_diagonal_blocks,
             current_block_weights >>
logvars == << processed, adds, mat_ops, prev, last, npasses >>

\* an operation on a space that changes its sequence number (a refinement, a
\* change of orders): the space renumbers its dofs
ChangeSpace(i) ==
  /\ pc = "idle"
  /\ nchanges < MaxSeq
  /\ space_seq' = [space_seq EXCEPT ![i] = @ + 1]
  /\ nchanges' = nchanges + 1
  /\ UNCHANGED << wfv, weak_seq, mats, rhss >>
  /\ UNCHANGED << passvars, dpvars, logvars, writes, edgevars, treevars, nullvars, linvars, trivars >>

\* an operation on the weak form that changes its sequence number
ChangeWeakForm ==
  /\ pc = "idle"
  /\ nchanges < MaxSeq
  /\ weak_seq' = weak_seq + 1
  /\ nchanges' = nchanges + 1
  /\ UNCHANGED << wfv, space_seq, mats, rhss >>
  /\ UNCHANGED << passvars, dpvars, logvars, writes, edgevars, treevars, nullvars, linvars, trivars >>

\* DiscreteProblem::invalidate_matrix
invalidate_matrix ==
  /\ pc = "idle"
  /\ have_matrix
  /\ have_matrix' = FALSE
  /\ UNCHANGED << wfv, space_seq, weak_seq, mats, rhss, nchanges >>
  /\ UNCHANGED << passvars, logvars, writes, edgevars, treevars, nullvars, linvars, trivars >>
  /\ UNCHANGED << sp_seq, wf_seq, space_first_dof, spaces_first_dofs, current_mat,
                  current_rhs, current_force_diagonal_blocks, current_block_weights >>

\* the context of a pass that starts from the structure record r
PassCx(mat, rhs, bw, r) ==
  [w |-> wfv, mat |-> mat # "NULL", rhs |-> rhs # "NULL", bw |-> bw,
   seq |-> space_seq, base |-> r.space_first_dof, off |-> r.spaces_first_dofs]

\* the context of the running pass
CurCx ==
  [w |-> wfv, mat |-> current_mat # "NULL", rhs |-> current_rhs # "NULL",
   bw |-> current_block_weights, seq |-> space_seq, base |-> space_first_dof,
   off |-> spaces_first_dofs]

\* "current_state.e[i]->visited = true" for every mesh of the state
mark_visited(vis, s) ==
  [i \in Spaces |-> [e \in Elements |-> IF e = StateE(s, i) THEN TRUE ELSE vis[i][e]]]

RECURSIVE JoinAll(_)
JoinAll(S) ==
  IF S = {} THEN NoAdds
  ELSE LET x == CHOOSE y \in S : TRUE IN JoinAdds(x, JoinAll(S \ {x}))

\* assemble_one_DG_state with the visited flags vis unchanged while it runs
assemble_one_DG_state(cx, s, vis) ==
  JoinAll({assemble_DG_edge(cx, s, isurf, vis) : isurf \in DGEdges(s)})

RECURSIVE sequential_pass(_, _, _, _)
\* the loop over the states run by a single thread, from cursor id on
sequential_pass(cx, id, vis, acc) ==
  IF id >= get_num_states THEN acc
  ELSE LET st   == get_next_state(id)
           vis1 == IF DG_forms_present(cx.w) THEN mark_visited(vis, st.state) ELSE vis
           one  == assemble_one_state(cx, st.state)
           dg   == IF DG_forms_present(cx.w)
                   THEN assemble_one_DG_state(cx, st.state, vis1)
                   ELSE NoAdds
       IN  sequential_pass(cx, st.id, vis1, JoinAdds(acc, JoinAdds(one, dg)))

\* the record of a finished pass
PassResult(mat, rhs, fdb, bw, M, R) ==
  [valid |-> TRUE, mat |-> mat, rhs |-> rhs, fdb |-> fdb, bw |-> bw,
   seq |-> space_seq, wseq |-> weak_seq,
   matval |-> IF mat # "NULL" THEN M[mat].val ELSE ZeroMatVal,
   rhsval |-> IF rhs # "NULL" THEN R[rhs].val ELSE ZeroRhsVal]

\* the size of the table is not looked at
block_weights_unchecked(bw) == FALSE

\* assemble: "if (block_weights->get_size() != wf->get_neq()) throw LengthException"
block_weights_mismatch(bw) == bw # "NULL" /\ TableSize(bw) # neq

\* assemble(coeff_vec, mat, rhs, force_diagonal_blocks, block_weights) run by
\* one thread (omp_get_max_threads() = 1), as one step
Assemble(mat, rhs, fdb, bw) ==
  /\ pc = "idle"
  /\ npasses < MaxPasses
  /\ npasses' = npasses + 1
  /\ current_mat' = mat
  /\ current_rhs' = rhs
  /\ current_force_diagonal_blocks' = fdb
  /\ current_block_weights' = bw
  /\ IF block_weights_mismatch(bw)
     THEN UNCHANGED << have_matrix, space_first_dof, spaces_first_dofs, sp_seq, wf_seq,
                       mat_ops, mats, rhss, adds, prev, last, processed >>
     ELSE LET r   == create_sparse_structure(mat, rhs, fdb)
              cx  == PassCx(mat, rhs, bw, r)
              res == sequential_pass(cx, 0, visited, NoAdds)
              M   == IF mat # "NULL"
                     THEN [r.mats EXCEPT ![mat].val = MatAfter(@, res.mat)] ELSE r.mats
              R   == IF rhs # "NULL"
                     THEN [r.rhss EXCEPT ![rhs].val = RhsAfter(@, res.rhs)] ELSE r.rhss
          IN  /\ have_matrix' = r.have_matrix
              /\ space_first_dof' = r.space_first_dof
              /\ spaces_first_dofs' = r.spaces_first_dofs
              /\ sp_seq' = r.sp_seq
              /\ wf_seq' = r.wf_seq
              /\ mat_ops' = r.mat_ops
              /\ mats' = M
              /\ rhss' = R
              /\ adds' = res
              /\ prev' = last
              /\ last' = PassResult(mat, rhs, fdb, bw, M, R)
              /\ processed' = [s \in States |-> 1]
  /\ UNCHANGED << wfv, space_seq, weak_seq, nchanges, passvars, writes, edgevars, treevars, nullvars, linvars, trivars >>

\* the arguments the driver passes to assemble: mat, rhs,
\* force_diagonal_blocks, block_weights
AssembleArgs ==
  { << "A", "R", FALSE, "NULL" >>, << "A", "NULL", TRUE, "W" >>,
    << "NULL", "R", FALSE, "NULL" >>, << "B", "R", FALSE, "NULL" >>,
    << "A", "R", FALSE, "Wbad" >> }

Next ==
  \/ \E i \in Spaces : ChangeSpace(i)
  \/ ChangeWeakForm
  \/ invalidate_matrix
  \/ \E a \in AssembleArgs : Assemble(a[1], a[2], a[3], a[4])

Spec == Init /\ [][Next]_vars

(***************************************************************************)
(* The assembling pass run by NumThreads threads.  One step of a thread is *)
(* what it does between two points where it can observe another thread:    *)
(* the critical section get_next_state with the forms of the state it       *)
(* hands out, then the DG forms of one edge.  The add calls of a step are each made under the      *)
(* critical sections mat and rhs and integer addition commutes, so a step   *)
(* applies them together.                                                   *)
(***************************************************************************)
\* current_state.e[field] of state s used by a step of the pass: dereferenced
\* by the code of the step ("deref"), or handed to the constructor of a
\* NeighborSearch ("handed")
Access(step, s, field, how) == [step |-> step, state |-> s, field |-> field, how |-> how]

\* the fields that have an element in state s
PresentFields(s) == {i \in Spaces : StateE(s, i) # NoElem}

\* create_sparse_structure, the loop over the states when the structure is
\* built: get_element_assembly_list under "if (current_state->e[i] != NULL)";
\* with is_DG, current_state->e[0]->get_num_surf() and
\* NeighborSearch ns(current_state->e[el], meshes[el]) for every el
structure_accesses(w, mat) ==
  IF mat = "NULL" \/ is_up_to_date THEN {}
  ELSE UNION { { Access("structure", s, i, "deref") : i \in PresentFields(s) }
               \cup (IF is_DG(w)
                     THEN { Access("structure", s, 0, "deref") }
                          \cup { Access("structure", s, el, "handed") : el \in Spaces }
                     ELSE {})
               : s \in States }

\* the critical section get_next_state: "current_state.e[i]->visited = true"
\* for every i < current_state.num when DG forms are present
fetch_accesses(w, s) ==
  IF DG_forms_present(w) THEN { Access("fetch", s, i, "deref") : i \in Spaces } ELSE {}

\* init_state and init_surface_state: "if (current_state->e[i] == NULL) continue;"
init_state_accesses(s) == { Access("init_state", s, i, "deref") : i \in PresentFields(s) }

\* the fields of the forms that add calls recs come from
form_fields(w, recs) ==
  { f.i : f \in { g \in MatrixForms(w) \cup VectorForms(w) :
                    \E r \in recs.mat \cup recs.rhs : r.form = g.id } }
  \cup { f.j : f \in { g \in MatrixForms(w) : \E r \in recs.mat : r.form = g.id } }

\* the elements the forms assembled on state s work on
forms_accesses(w, s, recs) == { Access("forms", s, i, "deref") : i \in form_fields(w, recs) }

\* init_neighbors: new NeighborSearch(current_state->e[i], mesh) for every
\* field
DG_accesses(s) == { Access("DG", s, i, "handed") : i \in Spaces }

\* a step with these accesses dereferences a null element pointer
NullDeref(acc) == \E a \in acc : a.how = "deref" /\ StateE(a.state, a.field) = NoElem

\* assemble up to the parallel region: the members set, the size check of the
\* block weights, create_sparse_structure, init_assembling
AssembleBegin(mat, rhs, fdb, bw) ==
  /\ pc = "idle"
  /\ npasses < MaxParPasses
  /\ npasses' = npasses + 1
  /\ current_mat' = mat
  /\ current_rhs' = rhs
  /\ current_force_diagonal_blocks' = fdb
  /\ current_block_weights' = bw
  /\ IF block_weights_mismatch(bw)
     THEN UNCHANGED << have_matrix, space_first_dof, spaces_first_dofs, sp_seq, wf_seq,
                       mat_ops, mats, rhss, adds, processed, pc, trav_id, omp_next,
                       writes, accessed >>
     ELSE LET r == create_sparse_structure(mat, rhs, fdb)
          IN  /\ have_matrix' = r.have_matrix
              /\ space_first_dof' = r.space_first_dof
              /\ spaces_first_dofs' = r.spaces_first_dofs
              /\ sp_seq' = r.sp_seq
              /\ wf_seq' = r.wf_seq
              /\ mat_ops' = r.mat_ops
              /\ mats' = r.mats
              /\ rhss' = r.rhss
              /\ adds' = NoAdds
              /\ processed' = [s \in States |-> 0]
              /\ pc' = "run"
              /\ trav_id' = 0
              /\ omp_next' = 0
              /\ writes' = {}
              /\ accessed' = structure_accesses(wfv, mat)
  /\ UNCHANGED << wfv, space_seq, weak_seq, nchanges, visited, wpc, wstate, wisurf,
                  prev, last >>
  /\ UNCHANGED << edgevars, treevars, absent, linvars, trivars >>

\* an object shared by the threads, or the clone kept for thread t, written by
\* thread by
SharedWrite(name, by) == [name |-> name, of |-> -1, by |-> by]
CloneWrite(name, t) == [name |-> name, of |-> t, by |-> t]

\* the critical section get_next_state of thread t: trav_master.top and
\* trav_master.id through the pointers handed to get_next_state, and the
\* visited flags of the elements of the state
fetch_writes(t) ==
  { SharedWrite("trav_master", t) } \cup
  (IF DG_forms_present(wfv) THEN { SharedWrite("Element::visited", t) } ELSE {})

\* what assemble_one_state of thread t works with: pss[t], spss[t],
\* refmaps[t], u_ext[t], als[t] and the forms cloned for the thread
clone_writes(t) ==
  { CloneWrite(n, t) : n \in {"pss", "spss", "refmaps", "u_ext", "als", "forms"} }

\* assemble_one_DG_state of thread t: the member min_dg_mesh_seq of the
\* discrete problem, and the neighbor searches the thread builds for the edge
DG_writes(t) ==
  { SharedWrite("min_dg_mesh_seq", t), CloneWrite("neighbor_searches", t) }
    \cup clone_writes(t)

\* the add calls recs made by thread t on the matrix and the rhs
add_writes(t, recs) ==
  (IF recs.mat # {} THEN { SharedWrite("mat", t) } ELSE {}) \cup
  (IF recs.rhs # {} THEN { SharedWrite("rhs", t) } ELSE {})

\* every thread walks a cursor of its own
private_cursor(id, st) == id

\* get_next_state(&trav_master.top, &trav_master.id): the cursor the threads
\* share after a call that went from id to state st
shared_cursor(id, st) == st.id

\* the add calls recs applied to the current matrix and rhs
apply_adds(recs) ==
  /\ mats' = IF current_mat # "NULL"
             THEN [mats EXCEPT ![current_mat].val = MatAfter(@, recs.mat)] ELSE mats
  /\ rhss' = IF current_rhs # "NULL"
             THEN [rhss EXCEPT ![current_rhs].val = RhsAfter(@, recs.rhs)] ELSE rhss
  /\ adds' = JoinAdds(adds, recs)

\* the least interior edge of state s at or after isurf, or -1
next_DG_edge(s, isurf) ==
  IF \E k \in DGEdges(s) : k >= isurf
  THEN CHOOSE k \in DGEdges(s) : k >= isurf /\ \A j \in DGEdges(s) : j >= isurf => k <= j
  ELSE -1

\* a thread takes the next iteration of the omp for loop: in the critical
\* section get_next_state it advances the shared cursor and, when DG forms are
\* present, sets the visited flag of the state's elements; then it runs
\* assemble_one_state for the state
OneState(t) ==
  /\ pc = "run"
  /\ wpc[t] = "idle"
  /\ omp_next < get_num_states
  /\ omp_next' = omp_next + 1
  /\ LET st == get_next_state(trav_id)
     IN  /\ trav_id' = shared_cursor(trav_id, st)
         /\ wstate' = [wstate EXCEPT ![t] = st.state]
         /\ visited' = IF DG_forms_present(wfv) THEN mark_visited(visited, st.state)
                                                ELSE visited
         /\ apply_adds(assemble_one_state(CurCx, st.state))
         /\ writes' = writes \cup fetch_writes(t) \cup clone_writes(t)
                              \cup add_writes(t, assemble_one_state(CurCx, st.state))
         /\ accessed' = accessed \cup fetch_accesses(wfv, st.state)
                                  \cup init_state_accesses(st.state)
                                  \cup forms_accesses(wfv, st.state,
                                                      assemble_one_state(CurCx, st.state))
         /\ processed' = [processed EXCEPT ![st.state] = @ + 1]
         /\ wpc' = [wpc EXCEPT ![t] =
                      IF DG_forms_present(wfv) /\ next_DG_edge(st.state, 0) >= 0
                      THEN "dg" ELSE "idle"]
  /\ wisurf' = [wisurf EXCEPT ![t] = 0]
  /\ UNCHANGED << wfv, space_seq, weak_seq, nchanges, pc, mat_ops, prev, last, npasses >>
  /\ UNCHANGED << dpvars, edgevars, treevars, absent, linvars, trivars >>

\* a thread runs assemble_one_DG_state for the next interior edge of its
\* state: it reads the visited flags of the neighbors, outside any critical
\* section, and assembles what they leave to it
DGEdge(t) ==
  /\ pc = "run"
  /\ wpc[t] = "dg"
  /\ LET isurf == next_DG_edge(wstate[t], wisurf[t])
     IN  /\ apply_adds(assemble_DG_edge(CurCx, wstate[t], isurf, visited))
         /\ writes' = writes \cup DG_writes(t)
                              \cup add_writes(t, assemble_DG_edge(CurCx, wstate[t], isurf,
                                                                  visited))
         /\ accessed' = accessed \cup DG_accesses(wstate[t])
                                  \cup forms_accesses(wfv, wstate[t],
                                                      assemble_DG_edge(CurCx, wstate[t],
                                                                       isurf, visited))
         /\ wisurf' = [wisurf EXCEPT ![t] = isurf + 1]
         /\ wpc' = [wpc EXCEPT ![t] =
                      IF next_DG_edge(wstate[t], isurf + 1) >= 0 THEN "dg" ELSE "idle"]
  /\ UNCHANGED << wfv, space_seq, weak_seq, nchanges, visited, pc, trav_id, omp_next,
                  wstate >>
  /\ UNCHANGED << processed, mat_ops, prev, last, npasses >>
  /\ UNCHANGED << dpvars, edgevars, treevars, absent, linvars, trivars >>

\* what becomes of an exception thrown inside the parallel region: no try
\* block encloses the loop body or the region, so in the OpenMP build the
\* exception leaves the structured block and the program is terminated, and in
\* a build that ignores the pragmas it unwinds out of assemble at once
EscapeOutcomes == {"terminated", "unwound"}

\* a thread takes the next state and a form's value() throws while the thread
\* works on it, before its first add call
WorkerThrows(t) ==
  /\ pc = "run"
  /\ wpc[t] = "idle"
  /\ omp_next < get_num_states
  /\ omp_next' = omp_next + 1
  /\ LET st == get_next_state(trav_id)
     IN  /\ trav_id' = shared_cursor(trav_id, st)
         /\ wstate' = [wstate EXCEPT ![t] = st.state]
         /\ visited' = IF DG_forms_present(wfv) THEN mark_visited(visited, st.state)
                                                ELSE visited
         /\ accessed' = accessed \cup fetch_accesses(wfv, st.state)
                                  \cup init_state_accesses(st.state)
  /\ writes' = writes \cup fetch_writes(t) \cup clone_writes(t)
  /\ pc' \in EscapeOutcomes
  /\ UNCHANGED << wfv, space_seq, weak_seq, nchanges, wpc, wisurf, processed, adds,
                  mats, rhss, mat_ops, prev, last, npasses >>
  /\ UNCHANGED << dpvars, edgevars, treevars, absent, linvars, trivars >>

\* the flags are left as the pass set them
visited_left_set(vis) == vis

\* "if (DG_matrix_forms_present || DG_vector_forms_present)
\*    for_all_elements ... visited = false" at the end of assemble
visited_after_pass(vis) == IF DG_forms_present(wfv) THEN NoVisited ELSE vis

\* the end of the parallel region: finish() on the matrix and the rhs, and the
\* visited flags of all elements reset when DG forms are present
AssembleEnd ==
  /\ pc = "run"
  /\ omp_next = get_num_states
  /\ \A t \in Threads : wpc[t] = "idle"
  /\ pc' = "idle"
  /\ visited' = visited_after_pass(visited)
  /\ prev' = last
  /\ last' = PassResult(current_mat, current_rhs, current_force_diagonal_blocks,
                        current_block_weights, mats, rhss)
  /\ UNCHANGED << wfv, space_seq, weak_seq, nchanges, mats, rhss, trav_id, omp_next,
                  wpc, wstate, wisurf, processed, adds, mat_ops, npasses >>
  /\ UNCHANGED << dpvars, writes, edgevars, treevars, nullvars, linvars, trivars >>

\* the arguments of the passes run in parallel
ParallelArgs == { << "A", "R", FALSE, "NULL" >> }

NextPar ==
  \/ \E a \in ParallelArgs : AssembleBegin(a[1], a[2], a[3], a[4])
  \/ \E t \in Threads : OneState(t)
  \/ \E t \in Threads : DGEdge(t)
  \/ \E t \in Threads : WorkerThrows(t)
  \/ AssembleEnd

SpecPar == Init /\ [][NextPar]_vars

(***************************************************************************)
(* The pass over states in which a field has no element.  A dereference of *)
(* a null element pointer either ends the program or goes unnoticed, and   *)
(* the pass goes on.                                                       *)
(***************************************************************************)
\* the fields without an element: field 1 in state 1, field 0 in state 2, or
\* both
AbsentChoices == { { << 1, 1 >> }, { << 2, 0 >> }, { << 1, 1 >>, << 2, 0 >> } }

InitNull == InitAny /\ absent \in AbsentChoices

\* create_sparse_structure stops at the null pointer it dereferences while it
\* builds the structure: have_matrix is set and the matrix freed by then
StructureNullDeref(mat, rhs, fdb, bw) ==
  /\ pc = "idle"
  /\ npasses < MaxParPasses
  /\ ~block_weights_mismatch(bw)
  /\ NullDeref(structure_accesses(wfv, mat))
  /\ npasses' = npasses + 1
  /\ current_mat' = mat
  /\ current_rhs' = rhs
  /\ current_force_diagonal_blocks' = fdb
  /\ current_block_weights' = bw
  /\ have_matrix' = TRUE
  /\ mat_ops' = << "free", "prealloc" >>
  /\ accessed' = structure_accesses(wfv, mat)
  /\ pc' = "crashed"
  /\ UNCHANGED << wfv, space_seq, weak_seq, nchanges, visited, wpc, wstate, wisurf,
                  prev, last, space_first_dof, spaces_first_dofs, sp_seq, wf_seq,
                  mats, rhss, adds, processed, trav_id, omp_next, writes >>
  /\ UNCHANGED << edgevars, treevars, absent, linvars, trivars >>

\* a thread stops in the critical section get_next_state at the null pointer
\* whose visited flag it sets
FetchNullDeref(t) ==
  /\ pc = "run"
  /\ wpc[t] = "idle"
  /\ omp_next < get_num_states
  /\ omp_next' = omp_next + 1
  /\ LET st == get_next_state(trav_id)
     IN  /\ NullDeref(fetch_accesses(wfv, st.state))
         /\ trav_id' = shared_cursor(trav_id, st)
         /\ wstate' = [wstate EXCEPT ![t] = st.state]
         /\ accessed' = accessed \cup fetch_accesses(wfv, st.state)
  /\ writes' = writes \cup fetch_writes(t)
  /\ pc' = "crashed"
  /\ UNCHANGED << wfv, space_seq, weak_seq, nchanges, visited, wpc, wisurf, processed,
                  adds, mats, rhss, mat_ops, prev, last, npasses >>
  /\ UNCHANGED << dpvars, edgevars, treevars, absent, linvars, trivars >>

NextNull ==
  \/ \E a \in ParallelArgs : AssembleBegin(a[1], a[2], a[3], a[4])
  \/ \E a \in ParallelArgs : StructureNullDeref(a[1], a[2], a[3], a[4])
  \/ \E t \in Threads : OneState(t)
  \/ \E t \in Threads : FetchNullDeref(t)
  \/ \E t \in Threads : DGEdge(t)
  \/ AssembleEnd

SpecNull == InitNull /\ [][NextNull]_vars

(***************************************************************************)
(* One interior edge of one state in assemble_one_DG_state: the body of    *)
(* the loop over the edges, from init_neighbors to the loop over the       *)
(* segments of the edge.                                                   *)
(***************************************************************************)
nonedgevars == << wfv, space_seq, weak_seq, sp_seq, wf_seq, have_matrix, space_first_dof,
                  spaces_first_dofs, current_mat, current_rhs,
                  current_force_diagonal_blocks, current_block_weights, mats, rhss,
                  visited, pc, trav_id, omp_next, wpc, wstate, wisurf, processed, adds,
                  mat_ops, prev, last, npasses, nchanges, writes >>

\* init_neighbors and "new NeighborNode(NULL, 0)": the neighbor searches of
\* the meshes on the active edge
InitNeighbors ==
  /\ epc = "idle"
  /\ \E ec \in EdgeCases, orientation \in {0, 1}, local_num_of_edge \in {0, 2} :
       LET sons == EdgeSons(ec.mode, ec.active_edge)
       IN  \E c0 \in CentralChains(sons), c1 \in CentralChains(sons) :
             LET chains == [i \in DGMeshes |-> IF i = 0 THEN c0 ELSE c1]
                 found  == [i \in DGMeshes |->
                              InitialSearch(i, chains[i], orientation,
                                            local_num_of_edge, ec.mode)]
             IN  /\ edge_case' = ec
                 /\ ns_in' = found
                 /\ neighbor_searches' = found
  /\ root' = NewRoot
  /\ epc' = "init"
  /\ cur_ns' = 0
  /\ loop_i' = 0
  /\ loop_n' = 0
  /\ num_neighbors' = 0
  /\ segments' = << >>
  /\ UNCHANGED << nonedgevars, treevars, nullvars, linvars, trivars >>

\* build_multimesh_tree(root, neighbor_searches), then the first pass of the
\* loop over the neighbor searches enters update_neighbor_search
BuildTree ==
  /\ epc = "init"
  /\ root' = build_multimesh_tree(root, neighbor_searches, 0)
  /\ epc' = IF root'.error THEN "error" ELSE "update"
  /\ cur_ns' = 0
  /\ loop_i' = 0
  /\ loop_n' = Len(neighbor_searches[0])
  /\ UNCHANGED << edge_case, ns_in, neighbor_searches, num_neighbors, segments >>
  /\ UNCHANGED << nonedgevars, treevars, nullvars, linvars, trivars >>

\* update_neighbor_search: one pass of its loop, for neighbor i of neighbor
\* search cur_ns
UpdateEntry ==
  /\ epc = "update"
  /\ loop_i < loop_n
  /\ LET ns   == neighbor_searches[cur_ns]
         node == find_node(ns[loop_i + 1].central_transformations, << >>, root)
         upd  == update_ns_subtree(root, ns, node.node, loop_i, edge_case.active_edge,
                                   edge_case.mode)
     IN  IF ~node.found
         THEN /\ epc' = "error"
              /\ UNCHANGED << neighbor_searches, loop_i, loop_n >>
         ELSE /\ neighbor_searches' = [neighbor_searches EXCEPT ![cur_ns] = upd.ns]
              /\ loop_i' = UInt(UInt(loop_i + upd.added) + 1)
              /\ loop_n' = UInt(loop_n + upd.added)
              /\ epc' = epc
  /\ UNCHANGED << edge_case, ns_in, root, cur_ns, num_neighbors, segments >>
  /\ UNCHANGED << nonedgevars, treevars, nullvars, linvars, trivars >>

\* update_neighbor_search has returned: the number of neighbors is compared
\* with that of the first neighbor search, and the loop goes to the next one
CheckNeighbors ==
  /\ epc = "update"
  /\ loop_i >= loop_n
  /\ LET n_neighbors == Len(neighbor_searches[cur_ns])
         first       == IF num_neighbors = 0 THEN n_neighbors ELSE num_neighbors
     IN  /\ num_neighbors' = first
         /\ IF neighbors_not_matching(n_neighbors, first)
            THEN /\ epc' = "error"
                 /\ UNCHANGED << cur_ns, loop_i, loop_n >>
            ELSE IF cur_ns + 1 \in DGMeshes
            THEN /\ epc' = epc
                 /\ cur_ns' = cur_ns + 1
                 /\ loop_i' = 0
                 /\ loop_n' = Len(neighbor_searches[cur_ns + 1])
            ELSE /\ epc' = "segments"
                 /\ UNCHANGED << cur_ns, loop_i, loop_n >>
  /\ UNCHANGED << edge_case, ns_in, neighbor_searches, root, segments >>
  /\ UNCHANGED << nonedgevars, treevars, nullvars, linvars, trivars >>

\* the loop over neighbor_i: neighbors.at(neighbor_i) of every neighbor
\* search is read, and assemble_DG_one_neighbor makes entry neighbor_i the
\* active segment of every neighbor search
Segment ==
  /\ epc = "segments"
  /\ Len(segments) < num_neighbors
  /\ LET neighbor_i == Len(segments)
     IN  IF \E i \in DGMeshes : neighbor_i >= Len(neighbor_searches[i])
         THEN /\ epc' = "error"
              /\ UNCHANGED segments
         ELSE /\ epc' = epc
              /\ segments' = Append(segments,
                                    [i \in DGMeshes |-> neighbor_searches[i][neighbor_i + 1]])
  /\ UNCHANGED << edge_case, ns_in, neighbor_searches, root, cur_ns, loop_i, loop_n,
                  num_neighbors >>
  /\ UNCHANGED << nonedgevars, treevars, nullvars, linvars, trivars >>

\* the end of the body of the edge loop: the tree and the neighbor searches
\* are deleted
EdgeEnd ==
  /\ epc = "segments"
  /\ Len(segments) = num_neighbors
  /\ edge_case' = [mode |-> "QUAD", active_edge |-> 0]
  /\ ns_in' = NoSearches
  /\ neighbor_searches' = NoSearches
  /\ root' = NewRoot
  /\ epc' = "idle"
  /\ cur_ns' = 0
  /\ loop_i' = 0
  /\ loop_n' = 0
  /\ num_neighbors' = 0
  /\ segments' = << >>
  /\ UNCHANGED << nonedgevars, treevars, nullvars, linvars, trivars >>

NextEdge ==
  \/ InitNeighbors
  \/ BuildTree
  \/ UpdateEntry
  \/ CheckNeighbors
  \/ Segment
  \/ EdgeEnd

\* a discrete problem with DG forms, before any assemble call
InitEdge == Init /\ wfv = "dgm"

SpecEdge == InitEdge /\ [][NextEdge]_vars

(***************************************************************************)
(* A multimesh tree under any calls of insert_into_multimesh_tree and      *)
(* find_node on its root.  error() ends the program: after it no call is   *)
(* made.                                                                    *)
(***************************************************************************)
\* the transformation codes of the chains
TreeCodes == {0, 1, 2}

\* the chains (transformations, transformation_count) of at most MaxLevels codes
Chains == UNION { [1 .. k -> TreeCodes] : k \in 0 .. MaxLevels }

\* error() has been called on this tree
TreeFailed == root.error \/ (tree_op.op = "find" /\ ~tree_op.found)

treeonly == << edge_case, ns_in, neighbor_searches, epc, cur_ns, loop_i, loop_n,
               num_neighbors, segments >>

\* insert_into_multimesh_tree(root, chain, Len(chain))
InsertChain(chain) ==
  /\ epc = "idle"
  /\ ~TreeFailed
  /\ chain \in inserted \/ Cardinality(inserted) < MaxInserts
  /\ root' = insert_into_multimesh_tree(root, << >>, chain)
  /\ inserted' = inserted \cup {chain}
  /\ tree_op' = [op |-> "insert", chain |-> chain, found |-> ~root'.error,
                 node |-> << >>]
  /\ UNCHANGED << nonedgevars, treeonly, nullvars, linvars, trivars >>

\* find_node(chain, Len(chain), root)
FindChain(chain) ==
  /\ epc = "idle"
  /\ ~TreeFailed
  /\ LET r == find_node(chain, << >>, root)
     IN  tree_op' = [op |-> "find", chain |-> chain, found |-> r.found,
                     node |-> IF r.found THEN r.node ELSE << >>]
  /\ UNCHANGED << nonedgevars, treeonly, root, inserted, nullvars, linvars, trivars >>

\* "delete root" and a new tree: new NeighborNode(NULL, 0)
DeleteTree ==
  /\ epc = "idle"
  /\ ~TreeFailed
  /\ inserted # {}
  /\ root' = NewRoot
  /\ inserted' = {}
  /\ tree_op' = NoTreeOp
  /\ UNCHANGED << nonedgevars, treeonly, nullvars, linvars, trivars >>

NextTree ==
  \/ \E chain \in Chains : InsertChain(chain)
  \/ \E chain \in Chains : FindChain(chain)
  \/ DeleteTree

SpecTree == InitEdge /\ [][NextTree]_vars

(***************************************************************************)
(* Linearizer::process_solution.  Every worker runs the loop that          *)
(* estimates the maximum and then the loop that linearizes its states; a   *)
(* step of a worker is one pass of a loop, or the exit from it.            *)
(***************************************************************************)
\* int start, end of worker t (thread_number = t - 1)
first_state(t) == (LinNumStates \div NumThreads) * (t - 1)
end_state(t) ==
  IF t - 1 = NumThreads - 1 THEN LinNumStates ELSE (LinNumStates \div NumThreads) * t

ItemNotDefined == "Item not defined in the solution in Linearizer::process_solution."
OutOfMemory == "Linearizer out of memory!"

\* what the head of a pass comes to: it runs on, or a std::exception is
\* thrown in it
MaxOutcomes == {"done", "throws"}

\* "if (!this->exceptionMessageCaughtInParallelBlock.empty()) break;"
stop_requested == exceptionMessageCaughtInParallelBlock # ""

\* "this->exceptionMessageCaughtInParallelBlock = e.what()" by a worker: no
\* critical section orders the assignments of two workers, and the string two
\* workers have assigned to holds one of the messages or neither
assigned_message(msg) == IF recorded = << >> THEN {msg} ELSE {msg, "corrupted"}

\* the per-call buffers (fns, hash_table, info, states) have been deleted
buffers_deleted == deallocs # << >>

\* a step that works with deleted buffers, or deletes them again, ends the
\* program or goes on
after_delete(position) == IF buffers_deleted THEN {position, "crashed"} ELSE {position}

\* process_solution up to the parallel region
ProcessSolutionBegin ==
  /\ lpc = "idle"
  /\ lpc' = "parallel"
  /\ exceptionMessageCaughtInParallelBlock' = ""
  /\ recorded' = << >>
  /\ deallocs' = << >>
  /\ late_starts' = {}
  /\ minus_one' = {}
  /\ thrown' = << >>
  /\ lphase' = [t \in Threads |-> 1]
  /\ state_i' = [t \in Threads |-> first_state(t)]
  /\ UNCHANGED << nonedgevars, edgevars, treevars, nullvars, trivars >>

\* one pass of the first loop of worker t (the maximum of the vertex values),
\* or the end of the loop
MaxState(t) ==
  /\ lpc = "parallel"
  /\ lphase[t] = 1
  /\ IF state_i[t] >= end_state(t) \/ stop_requested
     THEN /\ lphase' = [lphase EXCEPT ![t] = 2]
          /\ state_i' = [state_i EXCEPT ![t] = first_state(t)]
          /\ UNCHANGED << lpc, exceptionMessageCaughtInParallelBlock, recorded,
                          late_starts >>
     ELSE /\ state_i' = [state_i EXCEPT ![t] = @ + 1]
          /\ late_starts' = late_starts \cup
               (IF exceptionMessageCaughtInParallelBlock # ""
                THEN {<< t, 1, state_i[t] >>} ELSE {})
          /\ lpc' \in after_delete("parallel")
          /\ \E outcome \in MaxOutcomes :
               IF outcome = "throws"
               THEN /\ exceptionMessageCaughtInParallelBlock'
                         \in assigned_message(ItemNotDefined)
                    /\ recorded' = Append(recorded, [by |-> t, msg |-> ItemNotDefined])
               ELSE UNCHANGED << exceptionMessageCaughtInParallelBlock, recorded >>
          /\ UNCHANGED lphase
  /\ UNCHANGED << deallocs, minus_one, thrown >>
  /\ UNCHANGED << nonedgevars, edgevars, treevars, nullvars, trivars >>

\* the head of a pass of the second loop of worker t, up to the test of the
\* values ("Item not defined ..." is thrown and caught at the end of the
\* pass), or the end of the loop
MainState(t) ==
  /\ lpc = "parallel"
  /\ lphase[t] = 2
  /\ IF state_i[t] >= end_state(t) \/ stop_requested
     THEN /\ lphase' = [lphase EXCEPT ![t] = 4]
          /\ UNCHANGED << lpc, state_i, exceptionMessageCaughtInParallelBlock, recorded,
                          late_starts >>
     ELSE /\ late_starts' = late_starts \cup
               (IF exceptionMessageCaughtInParallelBlock # ""
                THEN {<< t, 2, state_i[t] >>} ELSE {})
          /\ lpc' \in after_delete("parallel")
          /\ \E outcome \in MaxOutcomes :
               IF outcome = "throws"
               THEN /\ exceptionMessageCaughtInParallelBlock'
                         \in assigned_message(ItemNotDefined)
                    /\ recorded' = Append(recorded, [by |-> t, msg |-> ItemNotDefined])
                    /\ state_i' = [state_i EXCEPT ![t] = @ + 1]
                    /\ UNCHANGED lphase
               ELSE /\ lphase' = [lphase EXCEPT ![t] = 3]
                    /\ UNCHANGED << exceptionMessageCaughtInParallelBlock, recorded,
                                    state_i >>
  /\ UNCHANGED << deallocs, minus_one, thrown >>
  /\ UNCHANGED << nonedgevars, edgevars, treevars, nullvars, trivars >>

\* the rest of the pass: get_vertex for the vertices of the element, then
\* process_triangle or process_quad and process_edge.  get_vertex returns -1
\* for a vertex it has to add when a message is recorded, the message of
\* another worker included; when add_vertex cannot grow the arrays it calls
\* deallocate() and throws, and get_vertex records the message.  The pass
\* goes on with the numbers it has got, and verts[-1] is read
ProcessState(t) ==
  /\ lpc = "parallel"
  /\ lphase[t] = 3
  /\ lphase' = [lphase EXCEPT ![t] = 2]
  /\ state_i' = [state_i EXCEPT ![t] = @ + 1]
  /\ \E outcome \in {"done", "out_of_memory"}, added \in BOOLEAN :
       IF outcome = "out_of_memory"
       THEN /\ deallocs' = Append(deallocs, "region")
            /\ exceptionMessageCaughtInParallelBlock'
                 \in assigned_message(OutOfMemory)
            /\ recorded' = Append(recorded, [by |-> t, msg |-> OutOfMemory])
            /\ minus_one' = minus_one \cup {<< t, state_i[t] >>}
            /\ lpc' \in {"parallel", "crashed"}
       ELSE /\ UNCHANGED << exceptionMessageCaughtInParallelBlock, recorded, deallocs >>
            /\ IF added /\ exceptionMessageCaughtInParallelBlock # ""
               THEN /\ minus_one' = minus_one \cup {<< t, state_i[t] >>}
                    /\ lpc' \in {"parallel", "crashed"}
               ELSE /\ minus_one' = minus_one
                    /\ lpc' \in after_delete("parallel")
  /\ UNCHANGED << late_starts, thrown >>
  /\ UNCHANGED << nonedgevars, edgevars, treevars, nullvars, trivars >>

\* process_solution after the parallel region: the realloc of tris_contours
\* (deallocate() and an exception when it fails), the regularization when no
\* message was recorded, deallocate(), and the exception made of the message
ProcessSolutionEnd ==
  /\ lpc = "parallel"
  /\ \A t \in Threads : lphase[t] = 4
  /\ \E contours \in {"allocated", "failed"} :
       IF contours = "failed"
       THEN /\ deallocs' = Append(deallocs, "contours")
            /\ thrown' = Append(thrown, OutOfMemory)
            /\ lpc' \in after_delete("thrown")
       ELSE /\ deallocs' = Append(deallocs, "end")
            /\ IF exceptionMessageCaughtInParallelBlock # ""
               THEN /\ thrown' = Append(thrown, exceptionMessageCaughtInParallelBlock)
                    /\ lpc' \in after_delete("thrown")
               ELSE /\ thrown' = thrown
                    /\ lpc' \in after_delete("returned")
  /\ UNCHANGED << lphase, state_i, exceptionMessageCaughtInParallelBlock, recorded,
                  late_starts, minus_one >>
  /\ UNCHANGED << nonedgevars, edgevars, treevars, nullvars, trivars >>

NextLin ==
  \/ ProcessSolutionBegin
  \/ \E t \in Threads : MaxState(t)
  \/ \E t \in Threads : MainState(t)
  \/ \E t \in Threads : ProcessState(t)
  \/ ProcessSolutionEnd

SpecLin == InitEdge /\ [][NextLin]_vars

(***************************************************************************)
(* Linearizer::process_triangle.  A double is a record: fin says whether   *)
(* it is finite, v is its value when it is.  The coordinates are those of  *)
(* a lattice fine enough for every midpoint the levels followed need, so   *)
(* that the halves are exact.  The element is not curved.                  *)
(***************************************************************************)
D(n) == [fin |-> TRUE, v |-> n]
NaN == [fin |-> FALSE, v |-> 0]
finite(a) == a.fin
dadd(a, b) == IF a.fin /\ b.fin THEN D(a.v + b.v) ELSE NaN
dsub(a, b) == IF a.fin /\ b.fin THEN D(a.v - b.v) ELSE NaN
dhalf(a) == IF a.fin THEN D(a.v \div 2) ELSE NaN
dabs(a) == IF a.fin THEN D(fabs(a.v)) ELSE NaN
\* a > b: false when one of them is not a number
dgt(a, b) == a.fin /\ b.fin /\ a.v > b.v

\* the side of the element, in lattice units
Side == 2 ^ (MaxTriLevel + 2)

\* the solutions: linear, quadratic, and one that is not finite at the
\* vertex (0, 0) of the element
Solutions == {"linear", "square", "singular"}

\* the value of solution u at the point (x, y)
SolutionValue(u, x, y) ==
  CASE u = "linear"   -> D(x + y)
    [] u = "square"   -> D(x * x)
    [] OTHER          -> IF x = 0 /\ y = 0 THEN NaN ELSE D(x + y)

\* eps as given to process_solution: 2 and 1 (fixed numbers of refinements),
\* and 1/100
EpsChoices == { [num |-> 2, den |-> 1], [num |-> 1, den |-> 1], [num |-> 1, den |-> 100] }

\* a vertex of verts: verts[i][0], verts[i][1], verts[i][2]
Vertex(u, x, y) == [x |-> x, y |-> y, val |-> SolutionValue(u, x, y)]

\* the midpoint of two vertices (midval[0][k], midval[1][k]) with the value
\* of the solution there (val[idx[k]]), as get_vertex is given it
MidVertex(u, a, b) == Vertex(u, (a.x + b.x) \div 2, (a.y + b.y) \div 2)

\* the three vertices process_solution hands to the outermost call
RootTriangle(u) == << Vertex(u, 0, 0), Vertex(u, Side, 0), Vertex(u, 0, Side) >>

\* the maximum the first loop of process_solution finds in the finite vertex
\* values when auto_max is set, the maximum the user has set otherwise
FirstMax(u, am) ==
  IF am
  THEN LET vals == {RootTriangle(u)[k].val : k \in 1 .. 3}
           fins == {fabs(a.v) : a \in {b \in vals : finite(b)}} \cup {0}
       IN  CHOOSE m \in fins : \A n \in fins : n <= m
  ELSE Side * Side

\* "if (finite(v) && fabs(v) > max) max = fabs(v)" over the values obtained
\* at an even level: those at the vertices and the midpoints of the triangle
MaxAfter(c, am, mx) ==
  IF am /\ c.level % 2 = 0
  THEN LET mids == {MidVertex(sln, c.v[k], c.v[(k % 3) + 1]).val : k \in 1 .. 3}
           vals == {c.v[k].val : k \in 1 .. 3} \cup mids
           fins == {fabs(a.v) : a \in {b \in vals : finite(b)}} \cup {mx}
       IN  CHOOSE m \in fins : \A n \in fins : n <= m
  ELSE mx

\* process_triangle, "determine whether or not to split the element", for
\* call c = (vertices v, level) with eps = e, auto_max = am, max = mx
split(c, e, am, mx) ==
  LET iv     == c.v
      mid    == [k \in 1 .. 3 |-> MidVertex(sln, iv[k], iv[(k % 3) + 1])]
      midval == [k \in 1 .. 3 |-> dhalf(dadd(iv[k].val, iv[(k % 3) + 1].val))]
      err    == dadd(dadd(dabs(dsub(mid[1].val, midval[1])),
                          dabs(dsub(mid[2].val, midval[2]))),
                     dabs(dsub(mid[3].val, midval[3])))
      \* err > max * 3 * eps
      above(x) == x.fin /\ x.v * e.den > mx * 3 * e.num
      quarter(a, b) == SolutionValue(sln, (a.x + b.x) \div 2, (a.y + b.y) \div 2)
      extra  == dadd(dadd(dabs(dsub(quarter(mid[1], mid[2]),
                                    dhalf(dadd(midval[1], midval[2])))),
                          dabs(dsub(quarter(mid[2], mid[3]),
                                    dhalf(dadd(midval[2], midval[3]))))),
                     dabs(dsub(quarter(mid[3], mid[1]),
                               dhalf(dadd(midval[3], midval[1])))))
      byerr  == IF ~am /\ \A k \in 1 .. 3 : dgt(dabs(iv[k].val), D(mx))
                THEN FALSE
                ELSE ~finite(err) \/ above(err)
  IN  IF e.num >= e.den
      THEN c.level * e.den < e.num
      ELSE IF c.level = 0 /\ ~byerr THEN above(extra) ELSE byerr

\* "recur to sub-elements": the four calls, in the order they are made
SubTriangles(c) ==
  LET iv   == c.v
      mid0 == MidVertex(sln, iv[1], iv[2])
      mid1 == MidVertex(sln, iv[2], iv[3])
      mid2 == MidVertex(sln, iv[3], iv[1])
  IN  << [v |-> << iv[1], mid0, mid2 >>, level |-> c.level + 1],
         [v |-> << mid0, iv[2], mid1 >>, level |-> c.level + 1],
         [v |-> << mid2, mid1, iv[3] >>, level |-> c.level + 1],
         [v |-> << mid1, mid2, mid0 >>, level |-> c.level + 1] >>

\* process_solution calls process_triangle at level 0 for a triangle
ProcessTriangleBegin ==
  /\ tpc = "idle"
  /\ \E e \in EpsChoices, u \in Solutions, am \in BOOLEAN :
       /\ eps' = e
       /\ sln' = u
       /\ auto_max' = am
       /\ max' = FirstMax(u, am)
       /\ pending' = << [v |-> RootTriangle(u), level |-> 0] >>
  /\ triangles' = {}
  /\ tpc' = "running"
  /\ UNCHANGED << nonedgevars, edgevars, treevars, nullvars, linvars >>

\* one call of process_triangle, up to its calls of itself.  A call that
\* splits at level MaxTriLevel is not followed
ProcessTriangle ==
  /\ tpc = "running"
  /\ pending # << >>
  /\ LET c  == Head(pending)
         mx == MaxAfter(c, auto_max, max)
     IN  /\ max' = mx
         /\ IF split(c, eps, auto_max, mx)
            THEN IF c.level >= MaxTriLevel
                 THEN /\ tpc' = "deeper"
                      /\ UNCHANGED << pending, triangles >>
                 ELSE /\ pending' = SubTriangles(c) \o Tail(pending)
                      /\ UNCHANGED << tpc, triangles >>
            ELSE /\ triangles' = triangles \cup {c}
                 /\ pending' = Tail(pending)
                 /\ tpc' = tpc
  /\ UNCHANGED << eps, auto_max, sln >>
  /\ UNCHANGED << nonedgevars, edgevars, treevars, nullvars, linvars >>

\* the outermost call has returned
ProcessTriangleEnd ==
  /\ tpc = "running"
  /\ pending = << >>
  /\ tpc' = "returned"
  /\ UNCHANGED << eps, auto_max, max, sln, pending, triangles >>
  /\ UNCHANGED << nonedgevars, edgevars, treevars, nullvars, linvars >>

NextTri ==
  \/ ProcessTriangleBegin
  \/ ProcessTriangle
  \/ ProcessTriangleEnd

SpecTri == InitEdge /\ [][NextTri]_vars

(***************************************************************************)
(* Properties of the sparse-structure cache.                               *)
(***************************************************************************)
\* a step that is a whole assemble call, run to its end
AssembleStep ==
  npasses' = npasses + 1 /\ ~block_weights_mismatch(current_block_weights')

\* the sequence numbers the spaces and the weak form have now
CurrentSeqs == [sp |-> space_seq, wf |-> weak_seq]

Rebuild == << "free", "prealloc", "alloc" >>

\* C1: after an assemble call given a matrix, is_up_to_date() is true and stays
\* true over every step that changes no sequence number and is not
\* invalidate_matrix; an assemble call given a matrix while it is true only
\* zeroes the matrix: no free, prealloc or alloc, the structure is kept
C1_UpToDateReuse ==
  [][ /\ (AssembleStep /\ current_mat' # "NULL") => is_up_to_date'
      /\ (is_up_to_date /\ space_seq' = space_seq /\ weak_seq' = weak_seq
            /\ ~invalidate_matrix) => is_up_to_date'
      /\ (is_up_to_date /\ AssembleStep /\ current_mat' # "NULL")
           => /\ mat_ops' = << "zero" >>
              /\ mats'[current_mat'].pattern = mats[current_mat'].pattern
              /\ mats'[current_mat'].allocated = mats[current_mat'].allocated
    ]_vars

\* a second assemble call into the same matrix found the structure up to date
C1_Witness ==
  /\ npasses >= 2
  /\ prev.valid /\ prev.mat = "A"
  /\ last.valid /\ last.mat = "A"
  /\ mat_ops = << "zero" >>
  /\ mats["A"].allocated
  /\ is_up_to_date

\* C2: a step that changes a sequence number leaves is_up_to_date() false, and
\* an assemble call given a matrix whose structure was built from other
\* sequence numbers than the current ones rebuilds that structure from scratch
\* and records the current sequence numbers
C2_ChangeRebuilds ==
  [][ /\ (space_seq' # space_seq \/ weak_seq' # weak_seq) => ~is_up_to_date'
      /\ (AssembleStep /\ current_mat' # "NULL"
            /\ mats[current_mat'].allocated
            /\ mats[current_mat'].built # CurrentSeqs)
           => /\ mat_ops' = Rebuild
              /\ mats'[current_mat'].built = CurrentSeqs
              /\ sp_seq' = space_seq /\ wf_seq' = weak_seq
    ]_vars

(***************************************************************************)
(* Properties of the assembling pass.                                      *)
(***************************************************************************)
\* a pass has completed and no other is running
PassDone == pc = "idle" /\ last.valid

\* the last two passes were given the same arguments and found the same
\* sequence numbers
SameInputs ==
  /\ prev.valid /\ last.valid
  /\ prev.mat = last.mat /\ prev.rhs = last.rhs
  /\ prev.fdb = last.fdb /\ prev.bw = last.bw
  /\ prev.seq = last.seq /\ prev.wseq = last.wseq

\* C3: two successive assemble calls with the same inputs leave the same matrix
\* and rhs content, and the content a pass leaves is the sum of its own add
\* calls on top of zero
C3_Idempotent ==
  PassDone =>
    /\ SameInputs => (last.matval = prev.matval /\ last.rhsval = prev.rhsval)
    /\ last.matval = MatAfter(ZeroMatVal, adds.mat)
    /\ last.rhsval = RhsAfter(ZeroRhsVal, adds.rhs)

\* C4: no state is processed twice, no two threads hold the same state, and
\* when the pass is over every state has been processed once
C4_EachStateOnce ==
  /\ \A s \in States : processed[s] <= 1
  /\ \A t1, t2 \in Threads :
       (t1 # t2 /\ pc = "run" /\ wpc[t1] # "idle" /\ wpc[t2] # "idle")
         => wstate[t1] # wstate[t2]
  /\ PassDone => \A s \in States : processed[s] = 1

\* two threads hold different states at the same time, each assembled once
C4_Witness ==
  /\ pc = "run"
  /\ wpc[1] = "dg" /\ wpc[2] = "dg"
  /\ wstate[1] # wstate[2]
  /\ processed[wstate[1]] = 1 /\ processed[wstate[2]] = 1

\* C5: the matrix and the rhs a pass leaves are those of the pass run by one
\* thread in traversal order, whatever the interleaving of the threads
C5_OrderIndependent ==
  (PassDone /\ last.seq = space_seq /\ last.wseq = weak_seq) =>
    LET ref == sequential_pass(CurCx, 0, NoVisited, NoAdds)
    IN  /\ last.matval = MatAfter(ZeroMatVal, ref.mat)
        /\ last.rhsval = RhsAfter(ZeroRhsVal, ref.rhs)

\* the DG matrix forms that assemble_DG_one_neighbor evaluates on state s
DGMatrixFormsOf(s) ==
  {g \in SeqToSet(mfsurf(wfv)) :
     /\ form_to_be_assembled_MatrixForm(g, s, current_block_weights)
     /\ g.areas[1] = "DG_INNER_EDGE"}

\* the add calls of DG matrix form f on the segment between elements e and nb,
\* from either side
SegmentEvals(f, e, nb) ==
  {r \in adds.mat :
     /\ r.path = "dg" /\ r.form = f.id
     /\ \/ StateRep(r.state) = e /\ NeighborOf(e, r.isurf) = nb
        \/ StateRep(r.state) = nb /\ NeighborOf(nb, r.isurf) = e}

\* C6: with DG matrix forms and no DG vector forms, when the pass is over the
\* DG matrix forms of every interior segment have been evaluated exactly once
C6_SegmentOnce ==
  (PassDone /\ wfv = "dgm" /\ last.mat # "NULL") =>
    \A s \in States : \A isurf \in DGEdges(s) : \A f \in DGMatrixFormsOf(s) :
      Cardinality(SegmentEvals(f, StateRep(s), NeighborOf(StateRep(s), isurf))) = 1

\* the DG matrix forms of a segment are never evaluated from both sides
C6_NeverTwice ==
  \A s \in States : \A isurf \in DGEdges(s) : \A f \in DGMatrixFormsOf(s) :
    Cardinality(SegmentEvals(f, StateRep(s), NeighborOf(StateRep(s), isurf))) <= 1

(***************************************************************************)
(* Properties of the values added.                                         *)
(***************************************************************************)
\* the global positions one add call writes
WrittenPositions(rec) ==
  {<< rec.rows[pq[1]], rec.cols[pq[2]] >> :
     pq \in {x \in (1 .. rec.m) \X (1 .. rec.n) :
               rec.rows[x[1]] >= 0 /\ rec.cols[x[2]] >= 0}}

\* C7: every position a pass adds to is a nonzero that was declared when the
\* structure of the matrix of the pass was built
C7_AddsDeclared ==
  (PassDone /\ last.mat # "NULL") =>
    \A r \in adds.mat :
      /\ mats[last.mat].allocated
      /\ WrittenPositions(r) \subseteq mats[last.mat].pattern

\* a pass that rebuilt the structure itself adds to declared positions only
C7_OwnBuildDeclared ==
  (PassDone /\ last.mat # "NULL" /\ mat_ops = Rebuild) =>
    \A r \in adds.mat :
      /\ mats[last.mat].allocated
      /\ WrittenPositions(r) \subseteq mats[last.mat].pattern

\* the matrix form with identifier id
MatrixFormById(id) == CHOOSE f \in MatrixForms(wfv) : f.id = id

\* the vector form with identifier id
VectorFormById(id) == CHOOSE f \in VectorForms(wfv) : f.id = id

\* C8: the local block added for a symmetric form with i = j satisfies
\* M[p][q] = M[q][p] for all free local indices p, q
C8_SymmetricBlock ==
  \A r \in adds.mat :
    (r.path # "dg" /\ form_sym(MatrixFormById(r.form))) =>
      \A p \in 1 .. r.m : \A q \in 1 .. r.n :
        (r.rows[p] >= 0 /\ r.cols[q] >= 0) => r.block[p][q] = r.block[q][p]

\* a symmetric form added a block with a nonzero entry off the diagonal
C8_Witness ==
  \E r \in adds.mat :
    /\ r.path # "dg" /\ form_sym(MatrixFormById(r.form))
    /\ \E p \in 1 .. r.m : \E q \in 1 .. r.n :
         p # q /\ r.rows[p] >= 0 /\ r.cols[q] >= 0 /\ r.block[p][q] # 0

\* the second add call of the form and place of add call r
MirrorOf(r) ==
  {r2 \in adds.mat : /\ r2.second /\ r2.form = r.form /\ r2.path = r.path
                     /\ r2.state = r.state /\ r2.isurf = r.isurf}

\* C9: a form with i # j and sym # 0 is added twice: the block at the rows of
\* i and the columns of j, then at the rows of j and the columns of i its
\* transpose, with the sign changed when the form is antisymmetric and
\* unchanged when it is symmetric; no other form is added twice
C9_MirroredBlock ==
  \A r \in adds.mat :
    (r.path # "dg" /\ ~r.second) =>
      LET f == MatrixFormById(r.form)
      IN  IF form_tra(f)
          THEN /\ Cardinality(MirrorOf(r)) = 1
               /\ \A r2 \in MirrorOf(r) :
                    /\ r2.m = r.n /\ r2.n = r.m
                    /\ r2.rows = r.cols /\ r2.cols = r.rows
                    /\ \A p \in 1 .. r.m : \A q \in 1 .. r.n :
                         r2.block[q][p] = (IF f.sym < 0 THEN -1 ELSE 1) * r.block[p][q]
          ELSE MirrorOf(r) = {}

\* an antisymmetric and a symmetric off-diagonal form have both been added
\* with nonzero blocks
C9_Witness ==
  /\ \E r \in adds.mat :
       /\ ~r.second /\ MatrixFormById(r.form).sym < 0 /\ form_tra(MatrixFormById(r.form))
       /\ \E p \in 1 .. r.m : \E q \in 1 .. r.n :
            r.rows[p] >= 0 /\ r.cols[q] >= 0 /\ r.block[p][q] # 0
  /\ \E r \in adds.mat :
       /\ ~r.second /\ MatrixFormById(r.form).sym > 0 /\ form_tra(MatrixFormById(r.form))
       /\ \E p \in 1 .. r.m : \E q \in 1 .. r.n :
            r.rows[p] >= 0 /\ r.cols[q] >= 0 /\ r.block[p][q] # 0

\* C10: no add call on the matrix or the rhs comes from a form whose scaling
\* factor is below 1e-12 in magnitude, in the volume, surface and DG paths
C10_NegligibleFormSkipped ==
  /\ \A r \in adds.mat : fabs(MatrixFormById(r.form).scaling_factor) >= Eps12
  /\ \A r \in adds.rhs : fabs(VectorFormById(r.form).scaling_factor) >= Eps12

\* a pass with forms of negligible scaling factor registered for all three
\* paths has added matrix and rhs values in all three paths
C10_Witness ==
  /\ PassDone /\ wfv = "dgmv"
  /\ \E f \in SeqToSet(mfvol(wfv)) : fabs(f.scaling_factor) < Eps12
  /\ \E f \in SeqToSet(mfsurf(wfv)) :
       fabs(f.scaling_factor) < Eps12 /\ f.areas[1] = "DG_INNER_EDGE"
  /\ \E f \in SeqToSet(mfsurf(wfv)) :
       fabs(f.scaling_factor) < Eps12 /\ f.areas[1] # "DG_INNER_EDGE"
  /\ \E f \in SeqToSet(vfvol(wfv)) : fabs(f.scaling_factor) < Eps12
  /\ \E f \in SeqToSet(vfsurf(wfv)) :
       fabs(f.scaling_factor) < Eps12 /\ f.areas[1] = "DG_INNER_EDGE"
  /\ \E f \in SeqToSet(vfsurf(wfv)) :
       fabs(f.scaling_factor) < Eps12 /\ f.areas[1] # "DG_INNER_EDGE"
  /\ \A path \in {"vol", "surf", "dg"} :
       /\ \E r \in adds.mat : r.path = path
       /\ \E r \in adds.rhs : r.path = path

(***************************************************************************)
(* Properties of the choice of the forms and of the factors applied.       *)
(***************************************************************************)
\* the volume vector forms whose areas hold neither HERMES_ANY nor a marker
\* that converts to the marker of an element of the mesh
NonMatchingVolumeVectorForms ==
  {f \in SeqToSet(vfvol(wfv)) :
     \A ss \in 1 .. Len(f.areas) :
       /\ f.areas[ss] # "ANY"
       /\ \A e \in Elements :
            ~(/\ ElementMarkersConversion(f.areas[ss]).valid
              /\ ElementMarkersConversion(f.areas[ss]).marker = ElemMarker(e))}

\* C11: a volume vector form whose areas match no element is assembled on no
\* state: no rhs value of any pass comes from it
C11_NonMatchingVectorFormSkipped ==
  \A f \in NonMatchingVolumeVectorForms : \A r \in adds.rhs : r.form # f.id

\* a pass with an rhs is over, other volume vector forms have added values, and
\* a form with an unknown and an unused marker and a scaling factor that
\* counts is registered
C11_Witness ==
  /\ PassDone /\ last.rhs # "NULL"
  /\ \E r \in adds.rhs : r.path = "vol"
  /\ \E f \in NonMatchingVolumeVectorForms :
       /\ fabs(f.scaling_factor) >= Eps12
       /\ \E ss \in 1 .. Len(f.areas) : ElementMarkersConversion(f.areas[ss]).valid
       /\ \E ss \in 1 .. Len(f.areas) : ~ElementMarkersConversion(f.areas[ss]).valid

\* the value a matrix add call r of the volume or boundary-surface path would
\* hold at [p][q] without any factor 0.5
FullMatrixValue(r, p, q) ==
  LET f   == MatrixFormById(r.form)
      als == IF r.path = "surf" THEN SurfaceAls(CurCx, r.state, r.isurf)
                                ELSE ElementAls(CurCx, r.state)
  IN  form_entry(f, r.state, r.isurf, als[f.i], als[f.j], CurCx.bw, p, q)

\* the entries of the first block of add call r that the loops of
\* assemble_matrix_form compute: free dofs, and j >= i in a symmetric block
ComputedEntries(r) ==
  LET f   == MatrixFormById(r.form)
      als == IF r.path = "surf" THEN SurfaceAls(CurCx, r.state, r.isurf)
                                ELSE ElementAls(CurCx, r.state)
  IN  {pq \in (1 .. r.m) \X (1 .. r.n) :
         /\ ActiveShape(als[f.i], pq[1]) /\ ActiveShape(als[f.j], pq[2])
         /\ form_sym(f) => pq[1] <= pq[2]}

\* the value a vector add call r would hold without any factor 0.5
FullVectorValue(r) ==
  LET f   == VectorFormById(r.form)
      als == IF r.path = "surf" THEN SurfaceAls(CurCx, r.state, r.isurf)
             ELSE IF r.path = "vol" THEN ElementAls(CurCx, r.state)
             ELSE AlsAfterOneState(CurCx, r.state)
      val == IF r.path = "dg"
             THEN DGVectorFormValue(f, StateRep(r.state), r.isurf, als[f.i][r.p].idx)
             ELSE VectorFormValue(f, StateRep(r.state), r.isurf, als[f.i][r.p].idx)
  IN  val * f.scaling_factor * als[f.i][r.p].coef

\* the value a DG matrix add call r would hold at [p][q] without the factor 0.5
FullDGMatrixValue(r, p, q) ==
  LET f     == MatrixFormById(r.form)
      als   == AlsAfterOneState(CurCx, r.state)
      e     == StateRep(r.state)
      nb    == NeighborOf(e, r.isurf)
      ext_u == ExtendedShapeset(CurCx, f.j, als[f.j], e, nb)
      ext_v == ExtendedShapeset(CurCx, f.i, als[f.i], e, nb)
  IN  block_scaling_coeff(f, CurCx.bw)
        * DGMatrixFormValue(f, ext_u[q].elem, ext_u[q].idx, ext_v[p].elem, ext_v[p].idx)
        * f.scaling_factor * ext_u[q].coef * ext_v[p].coef

\* the boundary-surface matrix values of the forms in F carry the factor 0.5
SurfaceMatrixHalved(F) ==
  \A r \in adds.mat :
    (r.path = "surf" /\ ~r.second /\ MatrixFormById(r.form) \in F) =>
      \A pq \in ComputedEntries(r) :
        r.block[pq[1]][pq[2]] = Half(FullMatrixValue(r, pq[1], pq[2]))

\* the vector values of the surface forms, on boundary edges and on DG inner
\* edges, and the DG matrix values carry the factor 0.5
SurfaceVectorAndDGHalved ==
  /\ \A r \in adds.rhs : r.path # "vol" => r.val = Half(FullVectorValue(r))
  /\ \A r \in adds.mat :
       r.path = "dg" =>
         \A p \in 1 .. r.m : \A q \in 1 .. r.n :
           (r.rows[p] >= 0 /\ r.cols[q] >= 0) =>
             r.block[p][q] = Half(FullDGMatrixValue(r, p, q))

\* no value of a volume form carries the factor 0.5
VolumeNotHalved ==
  /\ \A r \in adds.rhs : r.path = "vol" => r.val = FullVectorValue(r)
  /\ \A r \in adds.mat :
       (r.path = "vol" /\ ~r.second) =>
         \A pq \in ComputedEntries(r) :
           r.block[pq[1]][pq[2]] = FullMatrixValue(r, pq[1], pq[2])

\* C12: every value of a surface form, matrix or vector, unsymmetric or
\* symmetric, on a boundary edge or a DG inner edge, carries the factor 0.5,
\* and no value of a volume form carries it
C12_SurfaceHalved ==
  /\ SurfaceMatrixHalved(MatrixForms(wfv))
  /\ SurfaceVectorAndDGHalved
  /\ VolumeNotHalved

\* the same with the symmetric surface matrix forms left out
C12_UnsymmetricSurfaceHalved ==
  /\ SurfaceMatrixHalved({f \in MatrixForms(wfv) : ~form_sym(f)})
  /\ SurfaceVectorAndDGHalved
  /\ VolumeNotHalved

\* nonzero values have been added in every path, by a symmetric and by an
\* unsymmetric boundary-surface matrix form among them
C12_Witness ==
  /\ \A path \in {"vol", "surf", "dg"} :
       /\ \E r \in adds.rhs : r.path = path /\ r.val # 0
       /\ \E r \in adds.mat : r.path = path
  /\ \A sym \in BOOLEAN :
       \E r \in adds.mat :
         /\ r.path = "surf" /\ ~r.second /\ form_sym(MatrixFormById(r.form)) = sym
         /\ \E pq \in ComputedEntries(r) : FullMatrixValue(r, pq[1], pq[2]) # 0

(***************************************************************************)
(* Properties of the reconciliation of the neighbor searches of one edge.  *)
(***************************************************************************)
\* the central transformation chains of a neighbor search
CentralChainsOf(ns) == [k \in 1 .. Len(ns) |-> ns[k].central_transformations]

\* init_neighbors found, on every mesh, neighbors that divide the whole edge
ConsistentSearches ==
  \A i \in DGMeshes :
    IsPartition(CentralChainsOf(ns_in[i]),
                EdgeSons(edge_case.mode, edge_case.active_edge))

\* C13: once the tree is built and update_neighbor_search has run on every
\* neighbor search of the edge, all of them have the same number of
\* neighbors when the segments are assembled; the edge whose counts differ
\* ends in the fatal error with no segment assembled; neighbor searches that
\* each divide the whole edge never end in the error
C13_SameNumberOfNeighbors ==
  /\ epc = "segments" =>
       \A i \in DGMeshes : Len(neighbor_searches[i]) = num_neighbors
  /\ epc = "error" =>
       /\ segments = << >>
       /\ \E i \in DGMeshes : Len(neighbor_searches[i]) # num_neighbors
  /\ ConsistentSearches => epc # "error"

\* a mesh that saw one neighbor has two after the update, another mesh saw
\* two from the start, and both segments have been assembled
C13_Witness ==
  /\ epc = "segments"
  /\ Len(segments) = 2
  /\ \E i \in DGMeshes, j \in DGMeshes :
       /\ Len(ns_in[i]) = 1 /\ Len(ns_in[j]) = 2
       /\ Len(neighbor_searches[i]) = 2 /\ Len(neighbor_searches[j]) = 2

\* an edge whose neighbor searches disagree has ended in the fatal error
C13_ErrorReached == epc = "error" /\ ~root.error /\ cur_ns = 1

(***************************************************************************)
(* Properties of the pass: exceptions, arguments, flags, shared objects.   *)
(***************************************************************************)
\* C14: an exception raised by a worker is captured and does not leave the
\* parallel region: the pass goes on with the region running, and assemble
\* ends only when all workers have finished
C14_ExceptionCaptured ==
  [][ (\E t \in Threads : WorkerThrows(t)) => pc' = "run" ]_vars

\* C15: an assemble call with a block-weight table whose size is not the
\* number of equations fails before the sparse structure is rebuilt or zeroed
\* and before any form is evaluated: the matrices, the vectors, the saved
\* sequence numbers and have_matrix are as before the call
C15_BadTableChangesNothing ==
  [][ (/\ npasses' = npasses + 1
       /\ current_block_weights' # "NULL"
       /\ TableSize(current_block_weights') # neq)
      => /\ mats' = mats /\ rhss' = rhss
         /\ sp_seq' = sp_seq /\ wf_seq' = wf_seq /\ have_matrix' = have_matrix
         /\ mat_ops' = mat_ops /\ adds' = adds /\ last' = last
    ]_vars

\* the call with the bad table came when the structure of a filled matrix was
\* out of date, and the matrix and the rhs still hold the values of the
\* pass before
C15_Witness ==
  /\ block_weights_mismatch(current_block_weights)
  /\ last.valid /\ last.mat = current_mat /\ last.rhs = current_rhs
  /\ ~is_up_to_date
  /\ mats[current_mat].val = last.matval /\ mats[current_mat].val # ZeroMatVal
  /\ rhss[current_rhs].val = last.rhsval /\ rhss[current_rhs].val # ZeroRhsVal

\* C16: when assemble returns from a pass with DG forms registered, no
\* element of any mesh has its visited flag set; with no DG form registered
\* no step of assemble changes a visited flag
C16_VisitedCleared ==
  [][ /\ (DG_forms_present(wfv) /\ pc = "run" /\ pc' = "idle")
           => \A i \in Spaces : \A e \in Elements : ~visited'[i][e]
      /\ ~DG_forms_present(wfv) => visited' = visited
    ]_vars

\* a pass with DG forms has returned, its threads had set visited flags, and
\* no flag is set
C16_Witness ==
  /\ PassDone /\ DG_forms_present(wfv)
  /\ \E w \in writes : w.name = "Element::visited"
  /\ \A s \in States : processed[s] = 1
  /\ visited = NoVisited

\* the shared objects written by more than one thread during the pass
WrittenByMany ==
  { w.name : w \in { v \in writes : v.of = -1 /\ \E u \in writes :
                                       u.name = v.name /\ u.of = -1 /\ u.by # v.by } }

\* C17: during the parallel part of a pass the matrix and the rhs are the
\* only objects written by more than one thread; every other object a thread
\* writes is its own
C17_OnlyMatrixAndRhsShared ==
  /\ WrittenByMany \subseteq {"mat", "rhs"}
  /\ \A w \in writes : w.name \notin {"mat", "rhs"} => w.of = w.by

\* the clones of a thread are written by that thread only
C17_ClonesPrivate == \A w \in writes : w.of # -1 => w.of = w.by

\* C18: after invalidate_matrix() is_up_to_date() is false whatever the
\* sequence numbers are, and the next assemble call given a matrix rebuilds
\* the sparse structure (free, prealloc, alloc), after which is_up_to_date()
\* is true again
C18_InvalidateForcesRebuild ==
  [][ /\ invalidate_matrix => ~is_up_to_date'
      /\ (~have_matrix /\ AssembleStep /\ current_mat' # "NULL")
           => /\ mat_ops' = Rebuild
              /\ mats'[current_mat'].built = CurrentSeqs
              /\ is_up_to_date'
    ]_vars

\* the structure was up to date by its sequence numbers, invalidate_matrix
\* was called, and the assemble call after it has rebuilt the structure
C18_Witness ==
  /\ PassDone /\ last.mat # "NULL" /\ prev.valid /\ prev.mat = last.mat
  /\ prev.seq = last.seq /\ prev.wseq = last.wseq
  /\ last.seq = space_seq /\ last.wseq = weak_seq
  /\ nchanges = 0
  /\ mat_ops = Rebuild
  /\ is_up_to_date

\* C19: when the neighbor searches of the edge have been reconciled, the
\* entries at one index k denote the same leaf of the multimesh tree in every
\* neighbor search: their central transformation chains are equal and end in
\* a leaf
C19_EntriesAligned ==
  (epc = "segments" /\ ConsistentSearches) =>
    \A k \in 1 .. num_neighbors :
      \A i \in DGMeshes, j \in DGMeshes :
        /\ neighbor_searches[i][k].central_transformations
             = neighbor_searches[j][k].central_transformations
        /\ neighbor_searches[i][k].central_transformations \in DOMAIN root.sons
        /\ IsLeaf(root, neighbor_searches[i][k].central_transformations)

\* the leaves of the multimesh tree
Leaves == { node \in DOMAIN root.sons : IsLeaf(root, node) }

\* every reconciled neighbor search holds every leaf of the tree exactly once
C19_SameLeaves ==
  (epc = "segments" /\ ConsistentSearches /\ Leaves # { << >> }) =>
    \A i \in DGMeshes :
      /\ { neighbor_searches[i][k].central_transformations : k \in 1 .. num_neighbors }
           = Leaves
      /\ Cardinality(Leaves) = num_neighbors

\* the entries are aligned whenever, in every neighbor search, no entry that
\* has to be split is followed by another entry
C19_AlignedWhenSplitLast ==
  (/\ epc = "segments" /\ ConsistentSearches
   /\ \A i \in DGMeshes : \A k \in 1 .. Len(ns_in[i]) - 1 :
        IsLeaf(root, ns_in[i][k].central_transformations))
  => \A k \in 1 .. num_neighbors :
       \A i \in DGMeshes, j \in DGMeshes :
         neighbor_searches[i][k].central_transformations
           = neighbor_searches[j][k].central_transformations

\* node is a proper prefix of leaf
Below(node, leaf) ==
  Len(leaf) > Len(node) /\ SubSeq(leaf, 1, Len(node)) = node

\* C20: update_ns_subtree on an entry whose tree node is internal replaces the
\* entry by exactly one new entry per leaf below the node; every new entry has
\* the neighbor element and the edge info of the original entry, and its
\* central chain is the original chain followed by the path from the node to
\* the leaf; the other entries are kept; on an entry whose node is a leaf the
\* neighbor search is unchanged
C20_SplitIntoLeaves ==
  [][ (UpdateEntry /\ epc' = "update") =>
        LET ns    == neighbor_searches[cur_ns]
            entry == ns[loop_i + 1]
            node  == entry.central_transformations
            new   == neighbor_searches'[cur_ns]
            below == { leaf \in Leaves : Below(node, leaf) }
            added == SubSeq(new, Len(ns), Len(new))
        IN  /\ \A i \in DGMeshes \ {cur_ns} :
                 neighbor_searches'[i] = neighbor_searches[i]
            /\ IF IsLeaf(root, node)
               THEN new = ns
               ELSE /\ SubSeq(new, 1, Len(ns) - 1) = delete_neighbor(ns, loop_i)
                    /\ Len(added) = Cardinality(below)
                    /\ { added[k].central_transformations : k \in 1 .. Len(added) } = below
                    /\ \A k \in 1 .. Len(added) :
                         /\ added[k].neighbor = entry.neighbor
                         /\ added[k].edge_info = entry.edge_info
                         /\ SubSeq(added[k].central_transformations, 1, Len(node))
                              = entry.central_transformations
    ]_vars

\* the first of three entries, with a chain of its own, has been replaced by
\* the entries of the two leaves below its node; the other two are kept
C20_Witness ==
  /\ epc = "update"
  /\ Len(ns_in[cur_ns]) = 3
  /\ Len(ns_in[cur_ns][1].central_transformations) = 1
  /\ Len(neighbor_searches[cur_ns]) = 4
  /\ neighbor_searches[cur_ns][1] = ns_in[cur_ns][2]
  /\ neighbor_searches[cur_ns][2] = ns_in[cur_ns][3]
  /\ \A k \in {3, 4} :
       /\ neighbor_searches[cur_ns][k].neighbor = ns_in[cur_ns][1].neighbor
       /\ neighbor_searches[cur_ns][k].edge_info = ns_in[cur_ns][1].edge_info
       /\ Len(neighbor_searches[cur_ns][k].central_transformations) = 2
       /\ Below(ns_in[cur_ns][1].central_transformations,
                neighbor_searches[cur_ns][k].central_transformations)

(***************************************************************************)
(* Properties of the multimesh tree under any calls.                       *)
(***************************************************************************)
\* every node has at most two sons with different transformations, and a
\* right son only beside a left son
TreeShape ==
  \A node \in DOMAIN root.sons :
    LET sons == root.sons[node]
    IN  /\ Len(sons) <= 2
        /\ Len(sons) >= 1 => sons[1] # NoSon
        /\ Len(sons) = 2 => sons[2] # NoSon /\ sons[1] # sons[2]

\* the chain leaves the tree at a node that has two sons already
NeedsThirdSon(tree, chain) ==
  \E k \in 0 .. Len(chain) - 1 :
    LET node == SubSeq(chain, 1, k)
    IN  /\ node \in DOMAIN tree.sons
        /\ Len(tree.sons[node]) = 2
        /\ \A j \in 1 .. 2 : tree.sons[node][j] # chain[k + 1]

\* a step that is a call of insert_into_multimesh_tree
InsertStep == tree_op'.op = "insert" /\ << root, inserted, tree_op >> # << root', inserted', tree_op' >>

ThirdSonRefused ==
  InsertStep /\ NeedsThirdSon(root, tree_op'.chain)
    => root'.error /\ root'.sons = root.sons

\* C21: after any insert_into_multimesh_tree calls every node of the tree has
\* at most two sons, two sons of a node have different transformations, and a
\* node has a right son only beside a left son; an insertion whose next
\* transformation matches neither of the two sons of a node calls error() and
\* adds no son.
C21_AtMostTwoSons == []TreeShape /\ [][ThirdSonRefused]_vars

\* a third transformation was refused at a node with two sons
C21_Witness ==
  /\ tree_op.op = "insert"
  /\ root.error
  /\ \E node \in DOMAIN root.sons :
       /\ Len(node) = 1
       /\ Len(root.sons[node]) = 2
       /\ Len(tree_op.chain) = 2
       /\ tree_op.chain[1] = node[1]
       /\ tree_op.chain[2] \notin {root.sons[node][1], root.sons[node][2]}

\* find_node on an inserted chain returns the node at the end of the chain,
\* and find_node fails exactly on the chains that are no path of the tree
FindRight ==
  tree_op.op = "find" =>
    /\ tree_op.chain \in inserted => tree_op.found /\ tree_op.node = tree_op.chain
    /\ tree_op.found <=> tree_op.chain \in DOMAIN root.sons

InsertAgainNothing ==
  InsertStep /\ tree_op'.chain \in inserted => root' = root

\* C22: for every chain inserted into the tree, find_node returns the node
\* reached by following the chain from the root, and inserting the chain
\* again leaves the tree as it is; find_node on a chain that is no path of the
\* tree calls error().
C22_FindsInserted == []FindRight /\ [][InsertAgainNothing]_vars

\* an inserted chain of two transformations was found through the right son
\* of the root
C22_Witness ==
  /\ tree_op.op = "find"
  /\ tree_op.found
  /\ tree_op.chain \in inserted
  /\ Len(tree_op.chain) = 2
  /\ Len(root.sons[<< >>]) = 2
  /\ tree_op.chain[1] = root.sons[<< >>][2]

\* find_node has called error()
C22_NotFoundReached ==
  tree_op.op = "find" /\ ~tree_op.found /\ tree_op.chain \notin DOMAIN root.sons

(***************************************************************************)
(* Properties of the DG vector forms.                                      *)
(***************************************************************************)
\* the DG vector forms assembled on state s
DGVectorFormsOf(s) ==
  {f \in SeqToSet(vfsurf(wfv)) :
     f.areas[1] = "DG_INNER_EDGE" /\ form_to_be_assembled_VectorForm(f, s)}

\* the add calls made so far for DG vector form f on edge isurf of state s
VectorEvals(f, s, isurf) ==
  {r \in adds.rhs : r.form = f.id /\ r.path = "dg" /\ r.state = s /\ r.isurf = isurf}

\* the add calls made so far for DG vector form f on the segment between
\* elements e and nb, from either side
SegmentVectorEvals(f, e, nb) ==
  {r \in adds.rhs :
     /\ r.form = f.id /\ r.path = "dg"
     /\ \/ StateRep(r.state) = e /\ NeighborOf(e, r.isurf) = nb
        \/ StateRep(r.state) = nb /\ NeighborOf(nb, r.isurf) = e}

\* the add calls made so far for DG matrix forms on edge isurf of state s
MatrixEvals(s, isurf) ==
  {r \in adds.mat : r.path = "dg" /\ r.state = s /\ r.isurf = isurf}

\* when the pass is over, the DG vector forms of every interior segment have
\* been evaluated
VectorFormsEvaluated ==
  (PassDone /\ DG_vector_forms_present(wfv) /\ last.rhs # "NULL") =>
    \A s \in States : \A isurf \in DGEdges(s) : \A f \in DGVectorFormsOf(s) :
      SegmentVectorEvals(f, StateRep(s), NeighborOf(StateRep(s), isurf)) # {}

\* a thread that finds the segment of its edge marked as processed evaluates
\* the DG vector forms on it and no DG matrix form
ProcessedSegmentStep ==
  \A t \in Threads :
    LET s     == wstate[t]
        isurf == next_DG_edge(s, wisurf[t])
    IN  (/\ pc = "run" /\ wpc[t] = "dg" /\ wisurf'[t] # wisurf[t]
         /\ DG_vector_forms_present(wfv) /\ current_rhs # "NULL"
         /\ segment_processed(visited, NeighborOf(StateRep(s), isurf)))
        => /\ \A f \in DGVectorFormsOf(s) :
                LET evals == {r \in adds'.rhs : r.form = f.id /\ r.path = "dg"
                                                /\ r.state = s /\ r.isurf = isurf}
                IN  evals # {} /\ evals \cap adds.rhs = {}
           /\ {r \in adds'.mat : r.path = "dg" /\ r.state = s /\ r.isurf = isurf} = {}

\* C23: with DG vector forms registered and an rhs given, the DG vector forms
\* of every interior segment are evaluated at least once in the pass,
\* whichever side reaches the segment first: a segment found marked as
\* processed is still handed to assemble_DG_one_neighbor, which evaluates the
\* vector forms and skips only the DG matrix forms.
C23_VectorFormsAlways == []VectorFormsEvaluated /\ [][ProcessedSegmentStep]_vars

\* a pass is over in which both sides of the interior edge found the segment
\* marked as processed: the DG vector forms were evaluated from both sides and
\* the DG matrix forms from neither
C23_Witness ==
  /\ PassDone /\ wfv = "dgmv" /\ last.rhs # "NULL" /\ last.mat # "NULL"
  /\ \A s \in States : \A isurf \in DGEdges(s) :
       /\ MatrixEvals(s, isurf) = {}
       /\ DGVectorFormsOf(s) # {}
       /\ \A f \in DGVectorFormsOf(s) : VectorEvals(f, s, isurf) # {}
  /\ \E s \in States : DGEdges(s) # {}

(***************************************************************************)
(* Properties of the states in which a field has no element.               *)
(***************************************************************************)
\* C24: a field whose element is null in a state is skipped by every step of
\* the pass: no step of structure building, state fetching, state
\* initialisation, form evaluation or DG processing dereferences the element
\* of an absent field.
C24_AbsentFieldSkipped ==
  \A a \in accessed : a.how = "deref" => StateE(a.state, a.field) # NoElem

\* without DG forms no step uses the element of an absent field
C24_SkippedWithoutDG ==
  ~DG_forms_present(wfv) => \A a \in accessed : StateE(a.state, a.field) # NoElem

\* init_state, init_surface_state and the forms use present fields only
C24_InitAndFormsSkip ==
  \A a \in accessed :
    a.step \in {"init_state", "forms"} => StateE(a.state, a.field) # NoElem

\* no add call comes from a form with an absent row or column field
C24_FormsOfAbsentFieldsSkipped ==
  /\ \A r \in adds.mat :
       /\ StateE(r.state, MatrixFormById(r.form).i) # NoElem
       /\ StateE(r.state, MatrixFormById(r.form).j) # NoElem
  /\ \A r \in adds.rhs : StateE(r.state, VectorFormById(r.form).i) # NoElem

\* a pass over a state with an absent field has completed and has assembled
\* forms on the state
C24_PassWithAbsentField ==
  /\ PassDone /\ absent # {}
  /\ \E r \in adds.mat : \E i \in Spaces : << r.state, i >> \in absent

(***************************************************************************)
(* Properties of Linearizer::process_solution.                             *)
(***************************************************************************)
\* the call has ended
CallOver == lpc \in {"returned", "thrown"}

\* C25: once a worker has recorded an exception message no worker starts a
\* further state, the program does not end inside the call, the per-call
\* buffers are deallocated only after all workers have finished, and a call in
\* which a message was recorded ends by throwing exactly one exception, which
\* carries a recorded message, after one deallocation.
C25_RethrownOnce ==
  /\ late_starts = {}
  /\ lpc # "crashed"
  /\ minus_one = {}
  /\ \A k \in 1 .. Len(deallocs) : deallocs[k] # "region"
  /\ (CallOver /\ recorded # << >>) =>
       /\ lpc = "thrown"
       /\ Len(thrown) = 1
       /\ \E k \in 1 .. Len(recorded) : recorded[k].msg = thrown[1]
       /\ Len(deallocs) = 1

\* when memory does not run out, one worker has recorded a message and no
\* other worker had to add a vertex after that, no worker starts a further
\* state and the call ends by throwing that message once, after the one
\* deallocation behind the parallel region
C25_OneFailureRethrown ==
  (/\ Len(recorded) = 1
   /\ recorded[1].msg # OutOfMemory
   /\ minus_one = {}
   /\ \A k \in 1 .. Len(deallocs) : deallocs[k] = "end")
  => /\ late_starts = {}
     /\ lpc # "crashed"
     /\ CallOver => lpc = "thrown" /\ thrown = << recorded[1].msg >>
                    /\ deallocs = << "end" >>

\* such a call has ended, and the other worker had left states untouched
C25_OneFailureReached ==
  /\ lpc = "thrown"
  /\ Len(recorded) = 1
  /\ recorded[1].msg = ItemNotDefined
  /\ deallocs = << "end" >>
  /\ minus_one = {}
  /\ \E t \in Threads : t # recorded[1].by /\ state_i[t] < end_state(t)

\* a worker was in a pass when another worker recorded a message, and has
\* gone on with the -1 that get_vertex returned
C25_MinusOneUsed ==
  \E m \in minus_one : \E k \in 1 .. Len(recorded) :
    recorded[k].by # m[1] /\ \A j \in 1 .. Len(recorded) : recorded[j].msg # OutOfMemory

(***************************************************************************)
(* Properties of the two surface paths.                                    *)
(***************************************************************************)
\* the path and the edge of add call r are those of surface form f
PathOfForm(f, r) ==
  IF f.areas[1] = "DG_INNER_EDGE"
  THEN r.path = "dg" /\ EdgeMarker(StateRep(r.state), r.isurf) = 0
  ELSE /\ r.path = "surf"
       /\ StateBnd(r.state, r.isurf)
       /\ EdgeMarker(StateRep(r.state), r.isurf) # 0

\* the add calls made so far on edges, for the forms of list forms
EdgeAddsRight(recs, forms) ==
  \A r \in {q \in recs : q.path # "vol"} :
    /\ \E f \in SeqToSet(forms) : f.id = r.form /\ PathOfForm(f, r)
    /\ \A q \in recs :
         (q.form = r.form /\ q.state = r.state /\ q.isurf = r.isurf) => q.path = r.path

\* C26: a surface form whose first area is DG_INNER_EDGE is evaluated only by
\* the DG path and only on edges with marker 0, every other surface form only
\* by the boundary path and only on boundary edges with a nonzero marker, and
\* no surface form is evaluated on the same edge by both paths.
C26_OneSurfacePath ==
  /\ EdgeAddsRight(adds.mat, mfsurf(wfv))
  /\ EdgeAddsRight(adds.rhs, vfsurf(wfv))

\* the pass is over, and matrix and vector forms have been evaluated by both
\* paths
C26_Witness ==
  /\ PassDone
  /\ \E r \in adds.mat : r.path = "dg"
  /\ \E r \in adds.mat : r.path = "surf"
  /\ \E r \in adds.rhs : r.path = "dg"
  /\ \E r \in adds.rhs : r.path = "surf"

(***************************************************************************)
(* Properties of is_up_to_date().                                          *)
(***************************************************************************)
\* some matrix holds a structure built from the current sequence numbers
CurrentStructureSomewhere ==
  \E m \in DOMAIN mats : mats[m].allocated /\ mats[m].built = CurrentSeqs

\* C27: whenever is_up_to_date() is true, the sparse structure last built into
\* the matrix was built from the current sequence numbers of the spaces and of
\* the weak form.
C27_UpToDateIsCurrent == is_up_to_date => CurrentStructureSomewhere

(***************************************************************************)
(* Properties of the matrix object handed to assemble.                     *)
(***************************************************************************)
\* C28: after an assemble call given a matrix, that matrix object holds an
\* allocated sparse structure built for the current spaces (the adds of the
\* call come after create_sparse_structure), also when an earlier call was
\* given another matrix object and no sequence number has changed since.
C28_GivenMatrixAllocated ==
  [][ (AssembleStep /\ current_mat' # "NULL")
        => /\ mats'[current_mat'].allocated
           /\ mats'[current_mat'].built = [sp |-> space_seq', wf |-> weak_seq']
    ]_vars

\* an assemble call that is the first to be given its matrix object while
\* is_up_to_date() is false leaves an allocated structure built for the
\* current spaces in it
C28_BuiltWhenOutOfDate ==
  [][ (AssembleStep /\ current_mat' # "NULL" /\ ~is_up_to_date)
        => /\ mats'[current_mat'].allocated
           /\ mats'[current_mat'].built = [sp |-> space_seq', wf |-> weak_seq']
    ]_vars

(***************************************************************************)
(* Properties of the loop of update_neighbor_search.                       *)
(***************************************************************************)
\* the entries the neighbor search in hand had when update_neighbor_search
\* was entered
EntriesOnEntry == ns_in[cur_ns]

\* how many passes the loop has made
HandledCount == Len(EntriesOnEntry) - (loop_n - loop_i)

\* the entries at the positions i .. num_neighbors - 1, which the loop has
\* still to come to, are the entries on entry that no pass has handled, in
\* their order; the appended entries are behind them
LoopWindow ==
  epc = "update" =>
    /\ loop_i <= loop_n
    /\ loop_n <= Len(neighbor_searches[cur_ns])
    /\ HandledCount >= 0
    /\ SubSeq(neighbor_searches[cur_ns], loop_i + 1, loop_n)
         = SubSeq(EntriesOnEntry, HandledCount + 1, Len(EntriesOnEntry))

\* a pass of the loop handles the first entry not handled yet, and one entry
\* fewer is left
LoopPass ==
  (epc = "update" /\ loop_i < loop_n /\ epc' = "update")
    => /\ cur_ns' = cur_ns
       /\ neighbor_searches[cur_ns][loop_i + 1] = EntriesOnEntry[HandledCount + 1]
       /\ loop_n' - loop_i' = (loop_n - loop_i) - 1
       /\ epc' # "error"

\* C29: update_neighbor_search terminates, and its loop handles every entry
\* the neighbor search had on entry exactly once, in order; the entries that
\* update_ns_subtree appends are not handled again.  (The number of entries
\* left, num_neighbors - i, is never negative and every pass makes it smaller
\* by one: the loop ends after as many passes as there were entries on entry.)
C29_EveryEntryOnce ==
  /\ []LoopWindow
  /\ [][LoopPass]_vars

\* the loop is over for a neighbor search of two entries whose first entry
\* was split: the entry behind it was handled, the appended ones were not
C29_Witness ==
  /\ epc = "update"
  /\ loop_i >= loop_n
  /\ Len(EntriesOnEntry) = 2
  /\ loop_n = 1
  /\ Len(neighbor_searches[cur_ns]) > 2
  /\ neighbor_searches[cur_ns][1] = EntriesOnEntry[2]

\* the loop is over for a neighbor search whose only entry was split at
\* i = 0: i has gone through the largest unsigned value back to 0
C29_WrappedAround ==
  /\ epc = "update"
  /\ Len(EntriesOnEntry) = 1
  /\ loop_n = 0
  /\ loop_i = 0
  /\ Len(neighbor_searches[cur_ns]) >= 2

(***************************************************************************)
(* Properties of Linearizer::process_triangle.                             *)
(***************************************************************************)
\* the call of process_triangle that is made next
NextCall == Head(pending)

\* the call made next splits its triangle
NextCallSplits ==
  split(NextCall, eps, auto_max, MaxAfter(NextCall, auto_max, max))

\* C30: process_triangle terminates for every input: with eps >= 1 no call is
\* made at a level above eps, and otherwise the levels are bounded too, also
\* when values of the solution or the linearization error are not finite: no
\* call at the deepest level followed splits its triangle again.
C30_DepthBounded ==
  (tpc = "running" /\ pending # << >>) =>
    /\ eps.num >= eps.den => NextCall.level * eps.den <= eps.num
    /\ NextCall.level >= MaxTriLevel => ~NextCallSplits

\* with eps >= 1 a call splits exactly when its level is below eps, whatever
\* the values are, and the outermost call returns
C30_FixedRefinements ==
  (eps.num >= eps.den /\ tpc # "idle") =>
    /\ tpc # "deeper"
    /\ \A k \in 1 .. Len(pending) : pending[k].level * eps.den <= eps.num
    /\ \A c \in triangles : c.level * eps.den = eps.num

\* with eps < 1 and finite values everywhere the error test ends the
\* recursion above the deepest level followed
C30_FiniteValuesEnd ==
  (eps.num < eps.den /\ sln # "singular" /\ tpc # "idle") => tpc # "deeper"

\* the quadratic solution was split and the outermost call has returned
C30_SplitAndReturned ==
  /\ tpc = "returned"
  /\ eps.num < eps.den
  /\ sln = "square"
  /\ \E c \in triangles : c.level >= 2

====
